---- MODULE Spec2Model ----
(***************************************************************************)
(* Model of src/index.ts (class MultiProviderOpenAI): the MCP server       *)
(* registry, the tool catalog cache, the streaming tool-call               *)
(* reconstruction and the turn orchestration (createWithMCPTools).         *)
(*                                                                         *)
(* Strings are TLA+ strings; the JS values undefined / null / "" of a      *)
(* string-valued field are all written "" (the code only tests them for    *)
(* truthiness).  A JS Map is a function whose DOMAIN is the key set; the   *)
(* iteration order of a Map is kept in a separate sequence where the code  *)
(* depends on it.                                                          *)
(***************************************************************************)
EXTENDS Integers, Sequences, FiniteSets, TLC

VARIABLES
  now,                 \* Date.now()
  endpoint,            \* url -> how the HTTP endpoint at that url answers
  mcpServersConfig,    \* this.mcpServersConfig, as a sequence of [name, def]
  mcpEnabled,          \* this.mcpEnabled
  mcpClient,           \* this.mcpClient is set
  mcpServerInstances,  \* this.mcpServerInstances
  startPc,             \* per configured server: position of its start attempt
  initDone,            \* this.mcpInitializationPromise has settled
  mcpToolsCache,       \* this.mcpToolsCache: [set |-> BOOLEAN, tools |-> Seq]
  mcpLastCacheTime,    \* this.mcpLastCacheTime
  toolToServerMap,     \* this.toolToServerMap
  procs,               \* child processes created by spawn()
  reqLog,              \* protocol requests handed to fetch(), in order
  pc,                  \* position of the turn (one call of createWithMCPTools)
  req,                 \* the options of the turn
  localPR,             \* the Map built inside _initializePerRequestServers
  perRequestServers,   \* the variable perRequestServers of createWithMCPTools
  perRequestTools,     \* the variable perRequestTools of createWithMCPTools
  backendLog,          \* requests handed to createChatCompletion, in order
  toolCalls,           \* the tool calls the execution loop iterates over
  tcIdx,               \* index of the next tool call to process
  toolResults,         \* the array toolResults
  execLog,             \* per processed tool call: what the loop did with it
  failedIn,            \* phase in which an exception escaped the turn
  enhancedOptions,     \* the request built by createWithMCPTools
  toolCallsBuffer,     \* _createStreamingWithTools: Map index -> partial call
  hasToolCalls,        \* _createStreamingWithTools: hasToolCalls
  sent,                \* per index, the fragments the backend has streamed
  chunks,              \* number of chunks read from the first stream
  lpc,                 \* position of a direct caller of getMCPTools
  lnow,                \* the value `now` read by that call of getMCPTools
  listLog,             \* history of the completed direct getMCPTools calls
  sessions,            \* per url: number of sessions the endpoint has issued
  initSession,         \* per server: the local sessionId of _initializeHttpServer
  restarting,          \* names whose restartMCPServer call has not returned yet
  restartLog,          \* history of the calls of restartMCPServer
  directLog,           \* history of the direct callMCPTool / capabilities calls
  inFlight,            \* indices of the tool calls being executed by the turn
  followUp,            \* the response of the follow-up backend call
  lastChunk,           \* the chunk of the first stream read last
  yielded,             \* what the generator yielded while it handled lastChunk
  markers,             \* the marker chunks the generator has yielded, in order
  dispatchMap,         \* this.toolToServerMap as the call in execution read it
  overlapping,         \* a second caller of getMCPTools: position, clock, result
  detached             \* start attempts whose instance a restart has replaced

worldVars  == <<now, endpoint>>
regVars    == <<mcpServersConfig, mcpEnabled, mcpClient, mcpServerInstances,
                startPc, initDone>>
cacheVars  == <<mcpToolsCache, mcpLastCacheTime, toolToServerMap>>
turnVars   == <<pc, req, localPR, perRequestServers, perRequestTools,
                backendLog, toolCalls, tcIdx, toolResults, execLog, failedIn,
                enhancedOptions>>
streamVars == <<toolCallsBuffer, hasToolCalls, sent, chunks>>
listVars   == <<lpc, lnow, listLog>>
restartVars == <<initSession, restarting, restartLog>>
outVars    == <<followUp, lastChunk, yielded, markers, dispatchMap,
               overlapping>>
opVars     == <<sessions, restartVars, directLog, inFlight, outVars,
                detached>>
vars == <<worldVars, regVars, cacheVars, procs, reqLog, turnVars, streamVars,
          listVars, opVars>>

-----------------------------------------------------------------------------
(* Program constants and bounds *)

CACHE_DURATION == 30000

\* The clock advances in steps of TickStep up to MaxTime.
TickStep == 15000
MaxTime == 60000
\* A first stream carries at most MaxChunks chunks.
MaxChunks == 3
\* A backend response carries at most MaxToolCalls tool calls.
MaxToolCalls == 2
\* A direct caller calls getMCPTools at most MaxListCalls times.
MaxListCalls == 3
\* restartMCPServer is called at most MaxRestarts times.
MaxRestarts == 1
\* At most MaxDirectCalls direct capabilities / tool calls are made.
MaxDirectCalls == 1
\* restartMCPServer is called at most MaxOverlaps times where calls may
\* overlap a start that is in progress.
MaxOverlaps == 2
\* Next to restarts, getMCPTools is called at most MaxOpsLists times.
MaxOpsLists == 2

-----------------------------------------------------------------------------
(* Small helpers for JS containers *)

MapSet(m, k, v) == [x \in (DOMAIN m) \cup {k} |-> IF x = k THEN v ELSE m[x]]

EmptyMap == [x \in {} |-> ""]

Range(s) == {s[i] : i \in DOMAIN s}

-----------------------------------------------------------------------------
(* Server definitions and instances *)

\* MCPServerDefinition, restricted to the fields the code branches on.
Def(command, type, url) == [command |-> command, type |-> type, url |-> url]

\* _getServerType; "throw" stands for the Error it raises.
GetServerType(config) ==
  IF config.command # "" THEN "command"
  ELSE IF config.type # "" THEN config.type
  ELSE IF config.url # "" THEN "streamable-http"
  ELSE "throw"

\* MCPServerInstance as created by _initializeMCPServer and
\* _initializePerRequestServers; process is an index into procs, 0 = unset.
NewInstance(name, config, t) ==
  [name |-> name, config |-> config, type |-> GetServerType(config),
   initialized |-> FALSE, sessionId |-> "", lastError |-> "",
   process |-> 0, startTime |-> t]

\* The absent customInstance argument of _mcpRequest.
NoInstance == [NewInstance("", Def("", "", ""), 0) EXCEPT !.type = "absent"]

\* The name given to a per-request server.
TempName(serverName, t) == "temp_" \o serverName \o "_" \o ToString(t)

-----------------------------------------------------------------------------
(* The HTTP endpoints (environment) *)

\* Tools served by the endpoint at each url.
EndpointTools(url) ==
  CASE url = "u_fs" -> <<"read_file">>
    [] url = "u_db" -> <<"query">>
    [] url = "u_w"  -> <<"get_weather">>
    [] url = "u_x"  -> <<"lookup">>
    [] url = "u_a"  -> <<"get_time", "read_file">>
    [] OTHER        -> <<>>

\* SessionOf with one fixed identifier per endpoint: a new handshake is
\* answered with the identifier of the previous one.
SessionOfFixed(url) == "sid_" \o url

\* The mcp-session-id response header of the endpoint at url: the endpoint
\* issues a new identifier with every `initialize` it answers with a result.
SessionOf(url) == "sid_" \o url \o "_" \o ToString(sessions[url] + 1)

\* Text result of tools/call on the endpoint at url.
ToolOutput(url, toolName) == toolName \o "@" \o url

\* _mcpRequest.  sent: the request reached fetch(); ok: it returned
\* {data, response}; error: message of the Error thrown otherwise.
Thrown(msg, wasSent, url) ==
  [ok |-> FALSE, error |-> msg, sent |-> wasSent, url |-> url,
   hasResult |-> FALSE, tools |-> <<>>, session |-> ""]

McpRequest(serverName, method, customInstance, reg, ep) ==
  LET found    == customInstance.type # "absent" \/ serverName \in DOMAIN reg
      instance == IF customInstance.type # "absent" THEN customInstance
                  ELSE reg[serverName]
      url      == instance.config.url
      d        == ep[url]
  IN IF ~found THEN Thrown("MCP server not found: " \o serverName, FALSE, "")
     ELSE IF instance.type = "command"
       THEN Thrown("Direct MCP requests not supported for command-based servers: "
                   \o serverName, FALSE, "")
     ELSE IF d = "http500"
       THEN Thrown("HTTP 500: Internal Server Error", TRUE, url)
     ELSE IF d = "nomarker"
       THEN Thrown("Invalid SSE response format: ", TRUE, url)
     ELSE IF d = "rpcerror"
       THEN Thrown("MCP Error: refused", TRUE, url)
     ELSE [ok |-> TRUE, error |-> "", sent |-> TRUE, url |-> url,
           hasResult |-> (d = "ok"),
           tools |-> IF d = "ok" /\ method = "tools/list"
                     THEN EndpointTools(url) ELSE <<>>,
           session |-> IF d = "ok" THEN SessionOf(url) ELSE ""]

\* The entry a request leaves in reqLog (nothing when it never reached fetch).
Logged(serverName, method, sessionId, r) ==
  IF r.sent
  THEN <<[server |-> serverName, url |-> r.url, method |-> method,
          session |-> sessionId]>>
  ELSE <<>>

-----------------------------------------------------------------------------
(* Tool catalog *)

\* A tool in OpenAI format as built by the listing loops.
FormatTool(toolName, serverName, isPerRequest) ==
  [name |-> toolName, server |-> serverName, perRequest |-> isPerRequest]

\* SetAll that keeps the route a tool name already has.
RECURSIVE SetAllKeepFirst(_, _, _)
SetAllKeepFirst(m, toolNames, serverName) ==
  IF toolNames = <<>> THEN m
  ELSE SetAllKeepFirst(IF Head(toolNames) \in DOMAIN m THEN m
                       ELSE MapSet(m, Head(toolNames), serverName),
                       Tail(toolNames), serverName)

\* this.toolToServerMap.set(tool.name, serverName) for the tools of a server.
RECURSIVE SetAll(_, _, _)
SetAll(m, toolNames, serverName) ==
  IF toolNames = <<>> THEN m
  ELSE SetAll(MapSet(m, Head(toolNames), serverName), Tail(toolNames),
              serverName)

FormatAll(toolNames, serverName, isPerRequest) ==
  [i \in DOMAIN toolNames |-> FormatTool(toolNames[i], serverName, isPerRequest)]

\* The names of a Map of instances in iteration (insertion) order: the
\* registry is filled in the order of the configuration keys.
RegistryOrder(config, reg) ==
  SelectSeq([i \in DOMAIN config |-> config[i].name],
            LAMBDA n : n \in DOMAIN reg)

\* ListLoop that gives up at the first server whose tools/list fails: the
\* servers after it are not asked.
RECURSIVE ListLoopAbort(_, _, _, _)
ListLoopAbort(names, reg, ep, acc) ==
  IF names = <<>> THEN acc
  ELSE LET n    == Head(names)
           inst == reg[n]
           r    == McpRequest(n, "tools/list", NoInstance, reg, ep)
           lg   == acc.log \o Logged(n, "tools/list", inst.sessionId, r)
       IN IF ~inst.initialized \/ inst.type = "command"
            THEN ListLoopAbort(Tail(names), reg, ep, acc)
          ELSE IF ~r.ok
            THEN [acc EXCEPT !.log = lg]
          ELSE ListLoopAbort(Tail(names), reg, ep,
                 [tools |-> acc.tools \o FormatAll(r.tools, n, FALSE),
                  map   |-> SetAll(acc.map, r.tools, n),
                  log   |-> lg])

\* The loop of _getMCPToolsInternal over the names still to visit.
\* acc = [tools, map, log].
RECURSIVE ListLoop(_, _, _, _)
ListLoop(names, reg, ep, acc) ==
  IF names = <<>> THEN acc
  ELSE LET n    == Head(names)
           inst == reg[n]
           r    == McpRequest(n, "tools/list", NoInstance, reg, ep)
           lg   == acc.log \o Logged(n, "tools/list", inst.sessionId, r)
       IN IF ~inst.initialized \/ inst.type = "command"
            THEN ListLoop(Tail(names), reg, ep, acc)
          ELSE IF ~r.ok
            THEN ListLoop(Tail(names), reg, ep, [acc EXCEPT !.log = lg])
          ELSE ListLoop(Tail(names), reg, ep,
                 [tools |-> acc.tools \o FormatAll(r.tools, n, FALSE),
                  map   |-> SetAll(acc.map, r.tools, n),
                  log   |-> lg])

\* _getMCPToolsInternal: the map is cleared, then rebuilt.
GetMCPToolsInternal(config, reg, ep) ==
  ListLoop(RegistryOrder(config, reg), reg, ep,
           [tools |-> <<>>, map |-> EmptyMap, log |-> <<>>])

\* CacheHit with the age test dropped: a captured list never expires.
CacheHitNoExpiry(cache, lastTime, t) == cache.set

\* The cache test of getMCPTools.
CacheHit(cache, lastTime, t) ==
  cache.set /\ t - lastTime < CACHE_DURATION

NoCache == [set |-> FALSE, tools |-> <<>>]

\* getMCPTools once initialization has completed, as one step:
\* [tools, cache, lastTime, map, log].
GetMCPTools(t) ==
  IF CacheHit(mcpToolsCache, mcpLastCacheTime, t)
    THEN [tools |-> mcpToolsCache.tools, cache |-> mcpToolsCache,
          lastTime |-> mcpLastCacheTime, map |-> toolToServerMap,
          log |-> <<>>, batch |-> FALSE]
  ELSE IF ~mcpEnabled \/ DOMAIN mcpServerInstances = {}
    THEN [tools |-> <<>>, cache |-> mcpToolsCache,
          lastTime |-> mcpLastCacheTime, map |-> toolToServerMap,
          log |-> <<>>, batch |-> FALSE]
  ELSE LET b == GetMCPToolsInternal(mcpServersConfig, mcpServerInstances,
                                    endpoint)
       IN [tools |-> b.tools, cache |-> [set |-> TRUE, tools |-> b.tools],
           lastTime |-> t, map |-> b.map, log |-> b.log, batch |-> TRUE]

-----------------------------------------------------------------------------
(* Child processes *)

\* spawn(): the process exists but has not reported 'spawn' or 'error' yet.
NewProc(owner) == [owner |-> owner, state |-> "launching"]

\* ChildProcess.kill()
Kill(p) == IF p.state \in {"launching", "running"}
           THEN [p EXCEPT !.state = "killed"] ELSE p

Live(p) == p.state \in {"launching", "running"}

-----------------------------------------------------------------------------
(* Batch initialization: initializeMCP, _initializeMCPServer *)

\* The synchronous part of _initializeMCPServer(name), up to its first await.
\* st = [reg, procs, log, pcs].
StartServer(st, name, config, t) ==
  LET type == GetServerType(config)
      inst == NewInstance(name, config, t)
      reg1 == MapSet(st.reg, name, inst)
      r    == McpRequest(name, "initialize", NoInstance, reg1, endpoint)
  IN IF type = "throw"
       THEN [st EXCEPT !.pcs = MapSet(st.pcs, name, "rejected")]
     ELSE IF type = "command"
       THEN [reg   |-> MapSet(st.reg, name,
                          [inst EXCEPT !.process = Len(st.procs) + 1]),
             procs |-> Append(st.procs, NewProc(name)),
             log   |-> st.log,
             pcs   |-> MapSet(st.pcs, name, "awaitSpawn")]
     ELSE [reg   |-> reg1,
           procs |-> st.procs,
           log   |-> st.log \o Logged(name, "initialize", "", r),
           pcs   |-> MapSet(st.pcs, name, "awaitInit")]

\* StartAll in which an exception of one start escapes the loop: the
\* servers configured after it are never started.
RECURSIVE StartAllUntilThrow(_, _, _)
StartAllUntilThrow(st, config, t) ==
  IF config = <<>> \/ GetServerType(Head(config).def) = "throw" THEN st
  ELSE StartAllUntilThrow(StartServer(st, Head(config).name, Head(config).def,
                                      t),
                          Tail(config), t)

\* serverNames.map(name => this._initializeMCPServer(name)): every start
\* runs up to its first await (or rejects), whatever the others did.
RECURSIVE StartAll(_, _, _)
StartAll(st, config, t) ==
  IF config = <<>> THEN st
  ELSE StartAll(StartServer(st, Head(config).name, Head(config).def, t),
                Tail(config), t)

\* The state the constructor leaves: every configured server has run the
\* synchronous part of its start and awaits its first answer.
Constructed(config, enabled, t) ==
  IF ~enabled \/ config = <<>>
    THEN [reg |-> EmptyMap, procs |-> <<>>, log |-> <<>>, pcs |-> EmptyMap]
  ELSE StartAll([reg |-> EmptyMap, procs |-> <<>>, log |-> <<>>,
                 pcs |-> EmptyMap], config, t)

WrapInitError(name, msg) ==
  "Failed to initialize HTTP server " \o name \o ": " \o msg

\* _initializeHttpServer: the answer to `initialize` arrives.
G_InitResponse(n) ==
  /\ n \in DOMAIN startPc /\ startPc[n] = "awaitInit"
  /\ LET inst == mcpServerInstances[n]
         r    == McpRequest(n, "initialize", inst, mcpServerInstances, endpoint)
         nt   == McpRequest(n, "notifications/initialized", inst,
                            mcpServerInstances, endpoint)
     IN IF ~r.ok
          THEN /\ mcpServerInstances' = [mcpServerInstances EXCEPT
                    ![n].lastError = WrapInitError(n, r.error)]
               /\ startPc' = [startPc EXCEPT ![n] = "settled"]
               /\ UNCHANGED reqLog
        ELSE IF ~r.hasResult
          THEN /\ startPc' = [startPc EXCEPT ![n] = "settled"]
               /\ UNCHANGED <<mcpServerInstances, reqLog>>
        ELSE /\ startPc' = [startPc EXCEPT ![n] = "awaitNotify"]
             /\ reqLog' = reqLog \o
                  Logged(n, "notifications/initialized", r.session, nt)
             /\ UNCHANGED mcpServerInstances
  /\ LET inst == mcpServerInstances[n]
         r    == McpRequest(n, "initialize", inst, mcpServerInstances, endpoint)
     IN IF r.ok /\ r.hasResult
          THEN /\ initSession' = MapSet(initSession, n, r.session)
               /\ sessions' = [sessions EXCEPT ![r.url] = @ + 1]
        ELSE UNCHANGED <<initSession, sessions>>
  /\ UNCHANGED <<worldVars, mcpServersConfig, mcpEnabled, mcpClient, initDone,
                 cacheVars, procs, turnVars, streamVars, listVars,
                 restarting, restartLog, directLog, inFlight, outVars,
                 detached>>

\* _initializeHttpServer: notifications/initialized returned or threw.
G_NotifyResponse(n) ==
  /\ n \in DOMAIN startPc /\ startPc[n] = "awaitNotify"
  /\ mcpServerInstances' = [mcpServerInstances EXCEPT
       ![n].sessionId = initSession[n], ![n].initialized = TRUE]
  /\ startPc' = [startPc EXCEPT ![n] = "settled"]
  /\ UNCHANGED <<worldVars, mcpServersConfig, mcpEnabled, mcpClient, initDone,
                 cacheVars, procs, reqLog, turnVars, streamVars, listVars, opVars>>

\* _initializeCommandServer: 'spawn', 'error' or the 10 s timer fires.
G_SpawnEvent(n, ev) ==
  /\ n \in DOMAIN startPc /\ startPc[n] = "awaitSpawn"
  /\ LET p == mcpServerInstances[n].process
     IN CASE ev = "spawn" ->
               /\ procs' = [procs EXCEPT ![p].state = "running"]
               /\ mcpServerInstances' = [mcpServerInstances EXCEPT
                    ![n].initialized = TRUE]
          [] ev = "error" ->
               /\ procs' = [procs EXCEPT ![p].state = "failed"]
               /\ mcpServerInstances' = [mcpServerInstances EXCEPT
                    ![n].lastError = "spawn ENOENT"]
          [] OTHER ->
               /\ UNCHANGED procs
               /\ mcpServerInstances' = [mcpServerInstances EXCEPT
                    ![n].lastError = "Command server " \o n \o
                                     " failed to start within timeout"]
  /\ startPc' = [startPc EXCEPT ![n] = "settled"]
  /\ UNCHANGED <<worldVars, mcpServersConfig, mcpEnabled, mcpClient, initDone,
                 cacheVars, reqLog, turnVars, streamVars, listVars, opVars>>

\* _initializeCommandServer after its 10 s timer has fired: the listeners it
\* put on the subprocess are still in place, and the subprocess, which the
\* timer did not stop, reports 'spawn' or 'error' late.
G_LateEvent(n, ev) ==
  /\ n \in DOMAIN startPc /\ startPc[n] = "settled"
  /\ mcpServerInstances[n].type = "command"
  /\ procs[mcpServerInstances[n].process].state = "launching"
  /\ LET p == mcpServerInstances[n].process
     IN IF ev = "spawn"
          THEN /\ procs' = [procs EXCEPT ![p].state = "running"]
               /\ mcpServerInstances' = [mcpServerInstances EXCEPT
                    ![n].initialized = TRUE]
        ELSE /\ procs' = [procs EXCEPT ![p].state = "failed"]
             /\ UNCHANGED mcpServerInstances
  /\ UNCHANGED <<worldVars, mcpServersConfig, mcpEnabled, mcpClient, startPc,
                 initDone, cacheVars, reqLog, turnVars, streamVars, listVars,
                 opVars>>

\* A running subprocess of a global server exits on its own or is killed
\* from outside.  _initializeCommandServer puts no 'exit' or 'close'
\* listener on the subprocess: nothing of the client changes.
E_Exit(n) ==
  /\ n \in DOMAIN mcpServerInstances
  /\ mcpServerInstances[n].type = "command"
  /\ mcpServerInstances[n].process # 0
  /\ procs[mcpServerInstances[n].process].state = "running"
  /\ procs' = [procs EXCEPT ![mcpServerInstances[n].process].state = "exited"]
  /\ UNCHANGED <<worldVars, regVars, cacheVars, reqLog, turnVars, streamVars,
                 listVars, opVars>>

\* BatchStartEnded that waits for every start to be fulfilled: a start that
\* was rejected never counts as ended.
BatchStartEndedFulfilled(n) ==
  IF \E k \in DOMAIN detached : detached[k].name = n /\ detached[k].call = 0
    THEN \A k \in DOMAIN detached :
           (detached[k].name = n /\ detached[k].call = 0)
             => detached[k].pc = "settled"
  ELSE startPc[n] = "settled"

\* The promise of the start initializeMCP made for n has settled.  That
\* start works on the instance of the registry, or on one that a restart
\* has replaced in the meantime (detached, waited for by no restart call).
BatchStartEnded(n) ==
  IF \E k \in DOMAIN detached : detached[k].name = n /\ detached[k].call = 0
    THEN \A k \in DOMAIN detached :
           (detached[k].name = n /\ detached[k].call = 0)
             => detached[k].pc = "settled"
  ELSE startPc[n] \in {"settled", "rejected"}

\* initializeMCP after Promise.allSettled: list the tools of the connected
\* servers (which rebuilds the routing table), then the promise settles.
G_Finish ==
  /\ ~initDone
  /\ \A n \in DOMAIN startPc : BatchStartEnded(n)
  /\ LET b == GetMCPToolsInternal(mcpServersConfig, mcpServerInstances,
                                  endpoint)
     IN IF \E n \in DOMAIN mcpServerInstances :
              mcpServerInstances[n].initialized
          THEN /\ toolToServerMap' = b.map
               /\ reqLog' = reqLog \o b.log
        ELSE UNCHANGED <<toolToServerMap, reqLog>>
  /\ initDone' = TRUE
  /\ UNCHANGED <<worldVars, mcpServersConfig, mcpEnabled, mcpClient,
                 mcpServerInstances, startPc, mcpToolsCache, mcpLastCacheTime,
                 procs, turnVars, streamVars, listVars, opVars>>

-----------------------------------------------------------------------------
(* Per-request servers *)

\* The loop of _getToolsFromPerRequestServers.  acc = [tools, log].
RECURSIVE PRListLoop(_, _, _)
PRListLoop(prs, ep, acc) ==
  IF prs = <<>> THEN acc
  ELSE LET inst == Head(prs)
           r    == McpRequest(inst.name, "tools/list", inst, EmptyMap, ep)
           lg   == acc.log \o Logged(inst.name, "tools/list", inst.sessionId, r)
       IN IF ~inst.initialized \/ inst.type = "command"
            THEN PRListLoop(Tail(prs), ep, acc)
          ELSE IF ~r.ok
            THEN PRListLoop(Tail(prs), ep, [acc EXCEPT !.log = lg])
          ELSE PRListLoop(Tail(prs), ep,
                 [tools |-> acc.tools \o FormatAll(r.tools, inst.name, TRUE),
                  log   |-> lg])

GetToolsFromPerRequestServers(prs, ep) ==
  PRListLoop(prs, ep, [tools |-> <<>>, log |-> <<>>])

\* _cleanupPerRequestServers, guarded by perRequestServers.size > 0 as in the
\* finally block of createWithMCPTools.
CleanupPerRequestServers(prs, ps) ==
  [i \in DOMAIN ps |->
     IF \E k \in DOMAIN prs : prs[k].type = "command" /\ prs[k].process = i
     THEN Kill(ps[i]) ELSE ps[i]]

-----------------------------------------------------------------------------
(* Tool execution *)

\* Outcome of a call: returned (ok) with a text, or threw with a message.
Returned(text, server, log) ==
  [ok |-> TRUE, text |-> text, error |-> "", server |-> server, log |-> log]

Threw(msg, log) ==
  [ok |-> FALSE, text |-> "", error |-> msg, server |-> "", log |-> log]

\* The text the execution loops extract from the result of tools/call.
ResultText(r, toolName) ==
  IF r.hasResult THEN ToolOutput(r.url, toolName) ELSE ""

\* _callToolOnServer
CallToolOnServer(serverName, toolName, reg, ep) ==
  LET r == McpRequest(serverName, "tools/call", NoInstance, reg, ep)
  IN IF serverName \notin DOMAIN reg
       THEN Threw("MCP server not found: " \o serverName, <<>>)
     ELSE IF ~reg[serverName].initialized
       THEN Threw("Server " \o serverName \o " is not initialized", <<>>)
     ELSE IF reg[serverName].type = "command"
       THEN Threw("Command-based tool calling not yet implemented for "
                  \o serverName, <<>>)
     ELSE IF ~r.ok
       THEN Threw(r.error,
                  Logged(serverName, "tools/call", reg[serverName].sessionId, r))
     ELSE Returned(ResultText(r, toolName), serverName,
                   Logged(serverName, "tools/call", reg[serverName].sessionId, r))

\* _callToolByName
CallToolByName(toolName, reg, map, ep) ==
  IF toolName \notin DOMAIN map
    THEN Threw("Tool " \o toolName \o " not found on any connected MCP server",
               <<>>)
  ELSE CallToolOnServer(map[toolName], toolName, reg, ep)

\* _callToolWithServers: the loop over the per-request servers, then the
\* fallback to the global routing table.
RECURSIVE CallToolWithServers(_, _, _, _, _, _)
CallToolWithServers(toolName, prs, reg, map, ep, log) ==
  IF prs = <<>>
    THEN LET g == CallToolByName(toolName, reg, map, ep)
         IN [g EXCEPT !.log = log \o g.log]
  ELSE LET inst == Head(prs)
           l    == McpRequest(inst.name, "tools/list", inst, EmptyMap, ep)
           log1 == log \o Logged(inst.name, "tools/list", inst.sessionId, l)
           c    == McpRequest(inst.name, "tools/call", inst, EmptyMap, ep)
           log2 == log1 \o Logged(inst.name, "tools/call", inst.sessionId, c)
       IN IF ~inst.initialized \/ inst.type = "command"
            THEN CallToolWithServers(toolName, Tail(prs), reg, map, ep, log)
          ELSE IF ~l.ok \/ toolName \notin Range(l.tools)
            THEN CallToolWithServers(toolName, Tail(prs), reg, map, ep, log1)
          ELSE IF ~c.ok
            THEN CallToolWithServers(toolName, Tail(prs), reg, map, ep, log2)
          ELSE Returned(ResultText(c, toolName), inst.name, log2)

\* JSON.parse succeeds on the text.  The arguments texts of the model are
\* words over the two characters { and }, of which JSON accepts exactly {}.
JSONParses(text) == text = "{}"

\* ParseError of a decoder that accepts every text.
ParseErrorNever(text, streaming) == ""

\* Message of the error raised while decoding the arguments; "" when they
\* decode.  Only the streaming loop tests for empty text before JSON.parse.
ParseError(text, streaming) ==
  IF streaming /\ text = "" THEN "Empty arguments"
  ELSE IF ~JSONParses(text) THEN "Unexpected end of JSON input"
  ELSE ""

\* ToolMessage that does not copy the id of the tool call.
ToolMessageNoId(id, content) ==
  [role |-> "tool", tool_call_id |-> "", content |-> content]

\* A tool-result message.
ToolMessage(id, content) ==
  [role |-> "tool", tool_call_id |-> id, content |-> content]

ExternalMsg(toolName) == "Tool " \o toolName \o " requires external execution"

\* ExecToolCall without the routing-table test: a name that is not in
\* toolToServerMap is handed to _callToolWithServers like any other.
ExecToolCallUngated(tc, streaming, prs, reg, map, enabled, client, ep) ==
  LET perr == ParseError(tc.args, streaming)
      c    == CallToolWithServers(tc.name, prs, reg, map, ep, <<>>)
  IN IF perr # ""
       THEN [msg  |-> ToolMessage(tc.id, "Error: Invalid tool arguments - "
                                         \o perr),
             kind |-> "argerror", server |-> "", log |-> <<>>]
     ELSE IF ~c.ok
       THEN [msg  |-> ToolMessage(tc.id, "Error: " \o c.error),
             kind |-> "error", server |-> "", log |-> c.log]
     ELSE [msg  |-> ToolMessage(tc.id, c.text),
           kind |-> "executed", server |-> c.server, log |-> c.log]

\* One iteration of the execution loop of _processToolCalls (streaming =
\* FALSE) or _createStreamingWithTools (streaming = TRUE) for tool call tc:
\* the message pushed on toolResults, what was done, the requests sent.
ExecToolCall(tc, streaming, prs, reg, map, enabled, client, ep) ==
  LET perr == ParseError(tc.args, streaming)
      c    == CallToolWithServers(tc.name, prs, reg, map, ep, <<>>)
  IN IF perr # ""
       THEN [msg  |-> ToolMessage(tc.id, "Error: Invalid tool arguments - "
                                         \o perr),
             kind |-> "argerror", server |-> "", log |-> <<>>]
     ELSE IF tc.name \notin DOMAIN map
       THEN [msg  |-> ToolMessage(tc.id, ExternalMsg(tc.name)),
             kind |-> "external", server |-> "", log |-> <<>>]
     ELSE IF ~(enabled /\ client /\ DOMAIN reg # {})
       THEN [msg  |-> ToolMessage(tc.id, "Tool " \o tc.name \o
                        " is not available (MCP server not connected)"),
             kind |-> "unavailable", server |-> "", log |-> <<>>]
     ELSE IF ~c.ok
       THEN [msg  |-> ToolMessage(tc.id, "Error: " \o c.error),
             kind |-> "error", server |-> "", log |-> c.log]
     ELSE [msg  |-> ToolMessage(tc.id, c.text),
           kind |-> "executed", server |-> c.server, log |-> c.log]

-----------------------------------------------------------------------------
(* Registry operations: status, restart, capabilities, direct tool calls *)

\* GetServerStatus that derives the status from `initialized` alone.
GetServerStatusNoError(serverName, reg, t) ==
  IF serverName \notin DOMAIN reg
    THEN [found |-> FALSE, status |-> "", lastError |-> "", uptime |-> -1,
          error |-> "MCP server not found: " \o serverName]
  ELSE LET instance == reg[serverName]
       IN [found     |-> TRUE,
           status    |-> IF instance.initialized THEN "connected"
                         ELSE "disconnected",
           lastError |-> instance.lastError,
           uptime    |-> IF instance.startTime # 0
                         THEN t - instance.startTime ELSE -1,
           error     |-> ""]

\* _getServerStatus at clock t.  found = FALSE: it throws `error`.
\* uptime -1 stands for undefined (startTime is falsy).
GetServerStatus(serverName, reg, t) ==
  IF serverName \notin DOMAIN reg
    THEN [found |-> FALSE, status |-> "", lastError |-> "", uptime |-> -1,
          error |-> "MCP server not found: " \o serverName]
  ELSE LET instance == reg[serverName]
       IN [found     |-> TRUE,
           status    |-> IF instance.initialized THEN "connected"
                         ELSE IF instance.lastError # "" THEN "error"
                         ELSE "disconnected",
           lastError |-> instance.lastError,
           uptime    |-> IF instance.startTime # 0
                         THEN t - instance.startTime ELSE -1,
           error     |-> ""]

\* this.mcpServersConfig[serverName]
ConfigOf(config, serverName) ==
  config[CHOOSE i \in DOMAIN config : config[i].name = serverName].def

\* "Reset instance state" of restartMCPServer.
ResetInstance(instance, t) ==
  [instance EXCEPT !.initialized = FALSE, !.lastError = "", !.startTime = t]

\* RestartMCPServer that stops every subprocess of the registry and marks
\* every instance as not initialized before it starts serverName again.
RestartMCPServerAll(serverName, reg, ps, pcs, config, t) ==
  LET killed == [i \in DOMAIN ps |->
                   IF \E m \in DOMAIN reg : reg[m].process = i
                   THEN Kill(ps[i]) ELSE ps[i]]
      reset  == [m \in DOMAIN reg |->
                   [reg[m] EXCEPT !.initialized = FALSE]]
  IN StartServer([reg |-> reset, procs |-> killed, log |-> <<>>, pcs |-> pcs],
                 serverName, ConfigOf(config, serverName), t)

\* restartMCPServer(serverName) for a registered name, up to the first await
\* of the start it re-runs: [reg, procs, log, pcs].
RestartMCPServer(serverName, reg, ps, pcs, config, t) ==
  LET instance == reg[serverName]
      killed   == IF instance.type = "command" /\ instance.process # 0
                  THEN [ps EXCEPT ![instance.process] = Kill(@)] ELSE ps
      reset    == [reg EXCEPT ![serverName] = ResetInstance(instance, t)]
  IN StartServer([reg |-> reset, procs |-> killed, log |-> <<>>, pcs |-> pcs],
                 serverName, ConfigOf(config, serverName), t)

\* restartMCPServer(n) is called while no start of n is in progress.
R_Restart(n) ==
  /\ initDone /\ n \in DOMAIN mcpServerInstances
  /\ startPc[n] = "settled" /\ n \notin restarting
  /\ Len(restartLog) < MaxRestarts
  /\ LET r == RestartMCPServer(n, mcpServerInstances, procs, startPc,
                               mcpServersConfig, now)
     IN /\ mcpServerInstances' = r.reg
        /\ procs' = r.procs
        /\ startPc' = r.pcs
        /\ reqLog' = reqLog \o r.log
  /\ restarting' = restarting \cup {n}
  /\ restartLog' = Append(restartLog,
       [name |-> n, t |-> now, at |-> Len(reqLog),
        oldProcess |-> mcpServerInstances[n].process,
        oldSession |-> mcpServerInstances[n].sessionId,
        returned |-> FALSE, lists |-> 0, lpcAt |-> ""])
  /\ UNCHANGED <<worldVars, mcpServersConfig, mcpEnabled, mcpClient, initDone,
                 cacheVars, turnVars, streamVars, listVars, sessions,
                 initSession, directLog, inFlight, outVars,
                 detached>>

\* The call of restartMCPServer that waits for the start in progress on the
\* registered instance of n: its index in restartLog, 0 when that start was
\* made by initializeMCP.
CurrentCall(n) ==
  IF n \in restarting
  THEN CHOOSE i \in DOMAIN restartLog :
         /\ restartLog[i].name = n /\ ~restartLog[i].returned
         /\ \A j \in DOMAIN restartLog :
              (restartLog[j].name = n /\ ~restartLog[j].returned) => j <= i
  ELSE 0

\* restartLog once call k (if any) has returned.
MarkReturned(k) ==
  IF k = 0 THEN restartLog
  ELSE [restartLog EXCEPT ![k].returned = TRUE,
                          ![k].lists = Len(listLog),
                          ![k].lpcAt = lpc]

\* restartMCPServer(n) is called while a start of n, made by initializeMCP
\* or by an earlier restart, has not settled.  The instance that start works
\* on is reset and replaced in the registry; its continuation still runs.
R_RestartDuring(n) ==
  /\ n \in DOMAIN mcpServerInstances
  /\ startPc[n] \in {"awaitInit", "awaitNotify", "awaitSpawn"}
  /\ Len(restartLog) < MaxOverlaps
  /\ LET r == RestartMCPServer(n, mcpServerInstances, procs, startPc,
                               mcpServersConfig, now)
     IN /\ mcpServerInstances' = r.reg
        /\ procs' = r.procs
        /\ startPc' = r.pcs
        /\ reqLog' = reqLog \o r.log
  /\ detached' = Append(detached,
       [name    |-> n,
        inst    |-> ResetInstance(mcpServerInstances[n], now),
        pc      |-> startPc[n],
        session |-> IF n \in DOMAIN initSession THEN initSession[n] ELSE "",
        call    |-> CurrentCall(n)])
  /\ restarting' = restarting \cup {n}
  /\ restartLog' = Append(restartLog,
       [name |-> n, t |-> now, at |-> Len(reqLog),
        oldProcess |-> mcpServerInstances[n].process,
        oldSession |-> mcpServerInstances[n].sessionId,
        returned |-> FALSE, lists |-> 0, lpcAt |-> ""])
  /\ UNCHANGED <<worldVars, mcpServersConfig, mcpEnabled, mcpClient, initDone,
                 cacheVars, turnVars, streamVars, listVars, sessions,
                 initSession, directLog, inFlight, outVars>>

\* _initializeHttpServer of a replaced instance: the answer to the
\* `initialize` it had sent arrives.
D_InitResponse(k) ==
  /\ k \in DOMAIN detached /\ detached[k].pc = "awaitInit"
  /\ LET a  == detached[k]
         r  == McpRequest(a.name, "initialize", a.inst, mcpServerInstances,
                          endpoint)
         nt == McpRequest(a.name, "notifications/initialized", NoInstance,
                          mcpServerInstances, endpoint)
     IN IF ~r.ok
          THEN /\ detached' = [detached EXCEPT
                    ![k].inst.lastError = WrapInitError(a.name, r.error),
                    ![k].pc = "settled"]
               /\ restartLog' = MarkReturned(a.call)
               /\ UNCHANGED <<reqLog, sessions>>
        ELSE IF ~r.hasResult
          THEN /\ detached' = [detached EXCEPT ![k].pc = "settled"]
               /\ restartLog' = MarkReturned(a.call)
               /\ UNCHANGED <<reqLog, sessions>>
        ELSE /\ detached' = [detached EXCEPT ![k].pc = "awaitNotify",
                                             ![k].session = r.session]
             /\ reqLog' = reqLog \o
                  Logged(a.name, "notifications/initialized", r.session, nt)
             /\ sessions' = [sessions EXCEPT ![r.url] = @ + 1]
             /\ UNCHANGED restartLog
  /\ UNCHANGED <<worldVars, regVars, cacheVars, procs, turnVars, streamVars,
                 listVars, initSession, restarting, directLog, inFlight,
                 outVars>>

\* _initializeHttpServer of a replaced instance: notifications/initialized
\* returned or threw.
D_NotifyResponse(k) ==
  /\ k \in DOMAIN detached /\ detached[k].pc = "awaitNotify"
  /\ detached' = [detached EXCEPT
       ![k].inst.sessionId = detached[k].session,
       ![k].inst.initialized = TRUE,
       ![k].pc = "settled"]
  /\ restartLog' = MarkReturned(detached[k].call)
  /\ UNCHANGED <<worldVars, regVars, cacheVars, procs, reqLog, turnVars,
                 streamVars, listVars, sessions, initSession, restarting,
                 directLog, inFlight, outVars>>

\* _initializeCommandServer of a replaced instance, whose subprocess the
\* restart has killed: 'spawn', 'error' or the 10 s timer fires.
D_SpawnEvent(k, ev) ==
  /\ k \in DOMAIN detached /\ detached[k].pc = "awaitSpawn"
  /\ LET p == detached[k].inst.process
     IN CASE ev = "spawn" ->
               /\ UNCHANGED procs
               /\ detached' = [detached EXCEPT ![k].inst.initialized = TRUE,
                                               ![k].pc = "settled"]
          [] ev = "error" ->
               /\ procs' = [procs EXCEPT ![p].state = "failed"]
               /\ detached' = [detached EXCEPT
                    ![k].inst.lastError = "spawn ENOENT",
                    ![k].pc = "settled"]
          [] OTHER ->
               /\ UNCHANGED procs
               /\ detached' = [detached EXCEPT
                    ![k].inst.lastError = "Command server " \o
                       detached[k].name \o " failed to start within timeout",
                    ![k].pc = "settled"]
  /\ restartLog' = MarkReturned(detached[k].call)
  /\ UNCHANGED <<worldVars, regVars, cacheVars, reqLog, turnVars, streamVars,
                 listVars, sessions, initSession, restarting, directLog,
                 inFlight, outVars>>

\* The start re-run by restartMCPServer(n) has settled: the call returns.
\* The log entry notes how many getMCPTools calls had completed by then and
\* whether one was in progress.
R_Return(n) ==
  /\ n \in restarting /\ startPc[n] = "settled"
  /\ restarting' = restarting \ {n}
  /\ restartLog' = MarkReturned(CurrentCall(n))
  /\ UNCHANGED <<worldVars, regVars, cacheVars, procs, reqLog, turnVars,
                 streamVars, listVars, sessions, initSession, directLog,
                 inFlight, outVars,
                 detached>>

\* getMCPServerCapabilities
GetMCPServerCapabilities(serverName, reg, ep) ==
  LET r == McpRequest(serverName, "initialize", NoInstance, reg, ep)
  IN IF serverName \notin DOMAIN reg
       THEN Threw("MCP server not found: " \o serverName, <<>>)
     ELSE IF ~reg[serverName].initialized
       THEN Threw("Server " \o serverName \o " is not initialized", <<>>)
     ELSE IF reg[serverName].type = "command"
       THEN Threw("Capabilities querying not yet implemented for "
                  \o "command-based servers: " \o serverName, <<>>)
     ELSE IF ~r.ok
       THEN Threw(r.error,
                  Logged(serverName, "initialize", reg[serverName].sessionId, r))
     ELSE Returned("capabilities", serverName,
                   Logged(serverName, "initialize", reg[serverName].sessionId, r))

\* A direct call of getMCPServerCapabilities(n).
R_Capabilities(n) ==
  /\ Len(directLog) < MaxDirectCalls
  /\ LET c == GetMCPServerCapabilities(n, mcpServerInstances, endpoint)
     IN /\ reqLog' = reqLog \o c.log
        /\ directLog' = Append(directLog,
             [op |-> "capabilities", server |-> n, tool |-> "",
              ok |-> c.ok, error |-> c.error, sent |-> Len(c.log)])
  /\ UNCHANGED <<worldVars, regVars, cacheVars, procs, turnVars, streamVars,
                 listVars, sessions, restartVars, inFlight, outVars,
                 detached>>

\* A direct call of callMCPTool(n, toolName, args).
R_CallTool(n, toolName) ==
  /\ Len(directLog) < MaxDirectCalls
  /\ LET c == CallToolOnServer(n, toolName, mcpServerInstances, endpoint)
     IN /\ reqLog' = reqLog \o c.log
        /\ directLog' = Append(directLog,
             [op |-> "tools/call", server |-> n, tool |-> toolName,
              ok |-> c.ok, error |-> c.error, sent |-> Len(c.log)])
  /\ UNCHANGED <<worldVars, regVars, cacheVars, procs, turnVars, streamVars,
                 listVars, sessions, restartVars, inFlight, outVars,
                 detached>>

\* A direct call of callMCPTool(toolName, args), the signature that routes
\* by tool name.
R_CallToolByName(toolName) ==
  /\ Len(directLog) < MaxDirectCalls
  /\ LET c == CallToolByName(toolName, mcpServerInstances, toolToServerMap,
                             endpoint)
     IN /\ reqLog' = reqLog \o c.log
        /\ directLog' = Append(directLog,
             [op |-> "callByName", server |-> c.server, tool |-> toolName,
              ok |-> c.ok, error |-> c.error, sent |-> Len(c.log)])
  /\ UNCHANGED <<worldVars, regVars, cacheVars, procs, turnVars, streamVars,
                 listVars, sessions, restartVars, inFlight, outVars,
                 detached>>

\* The endpoint at url, which answered correctly so far, starts to fail.
E_Fail(url, d) ==
  /\ endpoint[url] = "ok" /\ d # "ok"
  /\ endpoint' = [endpoint EXCEPT ![url] = d]
  /\ UNCHANGED <<now, regVars, cacheVars, procs, reqLog, turnVars, streamVars,
                 listVars, opVars>>

-----------------------------------------------------------------------------
(* Streaming reconstruction (_createStreamingWithTools, first stream) *)

\* A tool-call delta; absent fields are "".
Delta(index, id, name, args) ==
  [index |-> index, id |-> id, name |-> name, args |-> args]

\* A client that generates no id of its own.
FallbackIdEmpty(t, index) == ""

\* The id generated for a delta that carries none.
FallbackId(t, index) == "call_" \o ToString(t) \o "_" \o ToString(index)

\* Position in the buffer of the entry for an index, 0 when there is none.
\* The buffer is a Map; its entries are kept in insertion order.
BufferPos(buf, index) ==
  IF \E i \in DOMAIN buf : buf[i].index = index
  THEN CHOOSE i \in DOMAIN buf : buf[i].index = index
  ELSE 0

\* ApplyDelta with `=` in place of `+=`: a later fragment replaces the
\* buffered name and arguments.
ApplyDeltaOverwrite(buf, d, t) ==
  LET pos == BufferPos(buf, d.index)
  IN IF pos = 0
       THEN Append(buf, [index |-> d.index,
                         id    |-> IF d.id # "" THEN d.id
                                   ELSE FallbackId(t, d.index),
                         name  |-> d.name,
                         args  |-> d.args])
     ELSE [buf EXCEPT ![pos] =
             [@ EXCEPT !.id   = IF d.id # "" THEN d.id ELSE @,
                       !.name = IF d.name # "" THEN d.name ELSE @,
                       !.args = IF d.args # "" THEN d.args ELSE @]]

\* The body of the loop over chunk.choices[0].delta.tool_calls.
ApplyDelta(buf, d, t) ==
  LET pos == BufferPos(buf, d.index)
  IN IF pos = 0
       THEN Append(buf, [index |-> d.index,
                         id    |-> IF d.id # "" THEN d.id
                                   ELSE FallbackId(t, d.index),
                         name  |-> d.name,
                         args  |-> d.args])
     ELSE [buf EXCEPT ![pos] =
             [@ EXCEPT !.id   = IF d.id # "" THEN d.id ELSE @,
                       !.name = @ \o d.name,
                       !.args = @ \o d.args]]

RECURSIVE ApplyDeltas(_, _, _)
ApplyDeltas(buf, ds, t) ==
  IF ds = <<>> THEN buf
  ELSE ApplyDeltas(ApplyDelta(buf, Head(ds), t), Tail(ds), t)

\* ValidToolCall without the test of the function name.
ValidToolCallIdOnly(tc) == tc.id # ""

\* The completeness filter applied after the stream has ended.
ValidToolCall(tc) == tc.id # "" /\ tc.name # ""

\* assistantMessage.tool_calls once the first stream has ended.
FinalizeToolCalls(buf) ==
  LET kept == SelectSeq(buf, ValidToolCall)
  IN [i \in DOMAIN kept |->
        [id |-> kept[i].id, name |-> kept[i].name, args |-> kept[i].args]]

\* What the backend has streamed for each index so far: its fragments
\* concatenated in arrival order, the last non-empty id it gave and the
\* number of deltas (kept by the environment, not by the code).
RECURSIVE Stream(_, _)
Stream(snt, ds) ==
  IF ds = <<>> THEN snt
  ELSE LET d   == Head(ds)
           old == IF d.index \in DOMAIN snt THEN snt[d.index]
                  ELSE [name |-> "", args |-> "", id |-> "", n |-> 0]
       IN Stream(MapSet(snt, d.index,
                        [name |-> old.name \o d.name,
                         args |-> old.args \o d.args,
                         id   |-> IF d.id # "" THEN d.id ELSE old.id,
                         n    |-> old.n + 1]),
                 Tail(ds))

-----------------------------------------------------------------------------
(* The turn: createWithMCPTools *)

\* The options of a call, restricted to the fields the code reads.
\* hasMcpServers: options.mcpServers is given (mcpServers lists its entries).
Options(stream, hasMcpServers, mcpServers, tools, toolChoice, feedback) ==
  [stream |-> stream, hasMcpServers |-> hasMcpServers,
   mcpServers |-> mcpServers, tools |-> tools, tool_choice |-> toolChoice,
   toolExecutionFeedback |-> feedback]

NoOptions == Options(FALSE, FALSE, <<>>, <<>>, "", FALSE)

UserMessage == [role |-> "user", tool_call_id |-> "", content |-> "hi"]

AssistantMessage(tcs) ==
  [role |-> "assistant", tool_call_id |-> "", content |-> "",
   tool_calls |-> tcs]

\* A request handed to createChatCompletion.  mcpServers and
\* toolExecutionFeedback say whether the request still has these fields.
BackendRequest(stream, tools, toolChoice, hasMcp, hasFeedback, messages) ==
  [stream |-> stream, tools |-> tools, tool_choice |-> toolChoice,
   mcpServers |-> hasMcp, toolExecutionFeedback |-> hasFeedback,
   messages |-> messages]

\* EnhancedOptions that leaves the caller's tool_choice in place when the
\* merged tool list is empty.
EnhancedOptionsKeepChoice(options, allTools) ==
  BackendRequest(options.stream,
                 IF Len(allTools) > 0 THEN allTools ELSE options.tools,
                 IF Len(allTools) > 0
                   THEN (IF options.tool_choice # "" THEN options.tool_choice
                         ELSE "auto")
                   ELSE options.tool_choice,
                 FALSE, FALSE, <<UserMessage>>)

\* enhancedOptions as built by createWithMCPTools from the merged tools.
EnhancedOptions(options, allTools) ==
  BackendRequest(options.stream,
                 IF Len(allTools) > 0 THEN allTools ELSE options.tools,
                 IF Len(allTools) > 0
                   THEN (IF options.tool_choice # "" THEN options.tool_choice
                         ELSE "auto")
                   ELSE "",
                 FALSE, FALSE, <<UserMessage>>)

\* followUpOptions of _processToolCalls, spread from the original options.
FollowUpNonStreaming(options, tcs, results) ==
  BackendRequest(options.stream, <<>>, "",
                 options.hasMcpServers, options.toolExecutionFeedback,
                 <<UserMessage, AssistantMessage(tcs)>> \o results)

\* followUpOptions of _createStreamingWithTools, spread from enhancedOptions.
FollowUpStreaming(enhanced, tcs, results) ==
  BackendRequest(enhanced.stream, <<>>, "",
                 enhanced.mcpServers, enhanced.toolExecutionFeedback,
                 <<UserMessage, AssistantMessage(tcs)>> \o results)

\* createWithMCPTools is called with options r.
T_Start(r) ==
  /\ pc = "idle"
  /\ req' = r
  /\ pc' = IF r.hasMcpServers THEN "prInit" ELSE "getTools"
  /\ UNCHANGED <<worldVars, regVars, cacheVars, procs, reqLog, localPR,
                 perRequestServers, perRequestTools, backendLog, toolCalls,
                 tcIdx, toolResults, execLog, failedIn, enhancedOptions,
                 streamVars, listVars, opVars>>

\* _initializePerRequestServers: one iteration of the loop up to its await.
\* An invalid definition makes _getServerType throw out of the loop and out
\* of createWithMCPTools, whose finally block still sees the empty Map it
\* assigned to perRequestServers at the start.
T_PRNext ==
  /\ pc = "prInit" /\ Len(localPR) < Len(req.mcpServers)
  /\ LET entry == req.mcpServers[Len(localPR) + 1]
         temp  == TempName(entry.name, now)
         inst  == NewInstance(temp, entry.def, now)
         r     == McpRequest(temp, "initialize", NoInstance,
                             mcpServerInstances, endpoint)
     IN CASE inst.type = "throw" ->
               /\ pc' = "failed"
               /\ failedIn' = "assembly"
               /\ procs' = IF Len(perRequestServers) > 0
                           THEN CleanupPerRequestServers(perRequestServers,
                                                         procs)
                           ELSE procs
               /\ UNCHANGED <<localPR, reqLog>>
          [] inst.type = "command" ->
               /\ procs' = Append(procs, NewProc(temp))
               /\ localPR' = Append(localPR,
                               [inst EXCEPT !.process = Len(procs) + 1])
               /\ pc' = "prAwaitSpawn"
               /\ UNCHANGED <<failedIn, reqLog>>
          [] OTHER ->
               /\ reqLog' = reqLog \o Logged(temp, "initialize", "", r)
               /\ localPR' = Append(localPR,
                               IF r.sent THEN inst
                               ELSE [inst EXCEPT !.lastError =
                                       WrapInitError(temp, r.error)])
               /\ pc' = IF r.sent THEN "prAwaitInit" ELSE "prInit"
               /\ UNCHANGED <<failedIn, procs>>
  /\ UNCHANGED <<worldVars, regVars, cacheVars, req, perRequestServers,
                 perRequestTools, backendLog, toolCalls, tcIdx, toolResults,
                 execLog, enhancedOptions, streamVars, listVars, opVars>>

\* _initializeCommandServer of a per-request server: 'spawn', 'error' or the
\* timer fires; the loop catches the rejection and records it.
T_PRSpawnEvent(ev) ==
  /\ pc = "prAwaitSpawn"
  /\ LET k == Len(localPR)
         p == localPR[k].process
     IN CASE ev = "spawn" ->
               /\ procs' = [procs EXCEPT ![p].state = "running"]
               /\ localPR' = [localPR EXCEPT ![k].initialized = TRUE]
          [] ev = "error" ->
               /\ procs' = [procs EXCEPT ![p].state = "failed"]
               /\ localPR' = [localPR EXCEPT ![k].lastError = "spawn ENOENT"]
          [] OTHER ->
               /\ UNCHANGED procs
               /\ localPR' = [localPR EXCEPT ![k].lastError =
                    "Command server " \o localPR[k].name \o
                    " failed to start within timeout"]
  /\ pc' = "prInit"
  /\ UNCHANGED <<worldVars, regVars, cacheVars, reqLog, req,
                 perRequestServers, perRequestTools, backendLog, toolCalls,
                 tcIdx, toolResults, execLog, failedIn, enhancedOptions,
                 streamVars, listVars, opVars>>

\* _initializeHttpServer of a per-request server: the answer to the
\* `initialize` it sent through _mcpRequest(name, ...), which looks the name
\* up in this.mcpServerInstances; then notifications/initialized.
T_PRInitResponse ==
  /\ pc = "prAwaitInit"
  /\ LET k  == Len(localPR)
         nm == localPR[k].name
         r  == McpRequest(nm, "initialize", NoInstance, mcpServerInstances,
                          endpoint)
         nt == McpRequest(nm, "notifications/initialized", NoInstance,
                          mcpServerInstances, endpoint)
     IN IF ~r.ok
          THEN /\ localPR' = [localPR EXCEPT ![k].lastError =
                                WrapInitError(nm, r.error)]
               /\ UNCHANGED reqLog
        ELSE IF ~r.hasResult
          THEN UNCHANGED <<localPR, reqLog>>
        ELSE /\ reqLog' = reqLog \o
                  Logged(nm, "notifications/initialized", r.session, nt)
             /\ localPR' = [localPR EXCEPT ![k].sessionId = r.session,
                                           ![k].initialized = TRUE]
  /\ LET r == McpRequest(localPR[Len(localPR)].name, "initialize", NoInstance,
                         mcpServerInstances, endpoint)
     IN sessions' = IF r.ok /\ r.hasResult
                    THEN [sessions EXCEPT ![r.url] = @ + 1] ELSE sessions
  /\ pc' = "prInit"
  /\ UNCHANGED <<worldVars, regVars, cacheVars, procs, req,
                 perRequestServers, perRequestTools, backendLog, toolCalls,
                 tcIdx, toolResults, execLog, failedIn, enhancedOptions,
                 streamVars, listVars, restartVars, directLog, inFlight,
                 outVars,
                 detached>>

\* T_PRDone that enters the tools of the per-request servers in the shared
\* routing table.
T_PRDoneShared ==
  /\ pc = "prInit" /\ Len(localPR) = Len(req.mcpServers)
  /\ LET g == GetToolsFromPerRequestServers(localPR, endpoint)
     IN /\ perRequestServers' = localPR
        /\ perRequestTools' = g.tools
        /\ reqLog' = reqLog \o g.log
        /\ toolToServerMap' =
             [x \in DOMAIN toolToServerMap \cup
                      {g.tools[i].name : i \in DOMAIN g.tools} |->
                IF \E i \in DOMAIN g.tools : g.tools[i].name = x
                THEN (CHOOSE sv \in {g.tools[i].server : i \in DOMAIN g.tools} :
                        \E i \in DOMAIN g.tools :
                          g.tools[i].name = x /\ g.tools[i].server = sv)
                ELSE toolToServerMap[x]]
  /\ pc' = "getTools"
  /\ UNCHANGED <<worldVars, regVars, mcpToolsCache, mcpLastCacheTime, procs,
                 req, localPR, backendLog, toolCalls, tcIdx, toolResults,
                 execLog, failedIn, enhancedOptions, streamVars, listVars,
                 opVars>>

\* _initializePerRequestServers returns its Map; the tools of the
\* per-request servers are listed.
T_PRDone ==
  /\ pc = "prInit" /\ Len(localPR) = Len(req.mcpServers)
  /\ LET g == GetToolsFromPerRequestServers(localPR, endpoint)
     IN /\ perRequestServers' = localPR
        /\ perRequestTools' = g.tools
        /\ reqLog' = reqLog \o g.log
  /\ pc' = "getTools"
  /\ UNCHANGED <<worldVars, regVars, cacheVars, procs, req, localPR,
                 backendLog, toolCalls, tcIdx, toolResults, execLog,
                 failedIn, enhancedOptions, streamVars, listVars, opVars>>

\* getMCPTools, the merge of the three tool sources and enhancedOptions.
\* A streaming call returns the generator of _createStreamingWithTools
\* unstarted and runs its finally block; a non-streaming call hands the
\* request to the backend.
T_GetTools ==
  /\ pc = "getTools" /\ initDone
  /\ LET g        == GetMCPTools(now)
         allTools == req.tools \o g.tools \o perRequestTools
         enhanced == EnhancedOptions(req, allTools)
     IN /\ mcpToolsCache' = g.cache
        /\ mcpLastCacheTime' = g.lastTime
        /\ toolToServerMap' = g.map
        /\ reqLog' = reqLog \o g.log
        /\ enhancedOptions' = enhanced
        /\ IF req.stream
             THEN /\ pc' = "genCreated"
                  /\ procs' = IF Len(perRequestServers) > 0
                              THEN CleanupPerRequestServers(perRequestServers,
                                                            procs)
                              ELSE procs
                  /\ UNCHANGED backendLog
           ELSE /\ pc' = "awaitBackend"
                /\ backendLog' = Append(backendLog, enhanced)
                /\ UNCHANGED procs
  /\ UNCHANGED <<worldVars, regVars, req, localPR, perRequestServers,
                 perRequestTools, toolCalls, tcIdx, toolResults, execLog,
                 failedIn, streamVars, listVars, opVars>>

\* The finally block of createWithMCPTools on the non-streaming path.
Finally(ps) ==
  IF Len(perRequestServers) > 0
  THEN CleanupPerRequestServers(perRequestServers, ps) ELSE ps

\* A backend response: it throws, or carries message.tool_calls (hasCalls)
\* or not.
Response(throws, hasCalls, tcs) ==
  [throws |-> throws, hasCalls |-> hasCalls, tool_calls |-> tcs]

\* No follow-up response yet.
NoResponse == Response(FALSE, FALSE, <<>>)

\* The follow-up call returns a response without tool calls.
ReturnedFollowUps == {Response(FALSE, FALSE, <<>>)}

\* The follow-up call throws, or returns a response without tool calls.
PlainFollowUps == {Response(throws, FALSE, <<>>) : throws \in BOOLEAN}

\* The non-streaming backend call returns or throws.
T_BackendResponse(resp) ==
  /\ pc = "awaitBackend"
  /\ IF resp.throws
       THEN /\ pc' = "failed" /\ failedIn' = "backend"
            /\ procs' = Finally(procs)
            /\ UNCHANGED <<toolCalls, tcIdx>>
     ELSE IF ~resp.hasCalls
       THEN /\ pc' = "done"
            /\ procs' = Finally(procs)
            /\ UNCHANGED <<toolCalls, tcIdx, failedIn>>
     ELSE /\ pc' = "exec"
          /\ toolCalls' = resp.tool_calls
          /\ tcIdx' = 1
          /\ UNCHANGED <<procs, failedIn>>
  /\ UNCHANGED <<worldVars, regVars, cacheVars, reqLog, req, localPR,
                 perRequestServers, perRequestTools, backendLog, toolResults,
                 execLog, enhancedOptions, streamVars, listVars, opVars>>

\* The iteration for tool call tc hands it to _callToolWithServers: its
\* arguments decode, its name is in the routing table and MCP is available.
Dispatches(tc) ==
  ExecToolCall(tc, req.stream, perRequestServers, mcpServerInstances,
               toolToServerMap, mcpEnabled, mcpClient, endpoint).kind
    \in {"executed", "error"}

\* A marker chunk {type: "tool_execution_event", event: {type, toolName}};
\* the chunks of the follow-up stream are entered as type "followup_chunk".
Marker(type, tool) == [type |-> type, tool |-> tool]

\* The generator yields the marker chunks in ms when it was given
\* toolExecutionFeedback; _processToolCalls yields nothing.
Emit(ms) ==
  IF req.stream /\ req.toolExecutionFeedback THEN markers \o ms ELSE markers

\* The marker yielded after the iteration for a tool call: tool_error after
\* undecodable arguments and after a failed execution, tool_completed after
\* an execution that returned, none on the two branches that only push a
\* message (tool not routed, MCP not available).
MarkersAfter(tc, kind) ==
  IF kind \in {"argerror", "error"} THEN <<Marker("tool_error", tc.name)>>
  ELSE IF kind = "executed" THEN <<Marker("tool_completed", tc.name)>>
  ELSE <<>>

\* The execution loop reaches `await this._callToolWithServers(...)` for the
\* next tool call: the loop is suspended until that call settles.
T_ExecBegin ==
  /\ pc = "exec" /\ tcIdx <= Len(toolCalls)
  /\ Dispatches(toolCalls[tcIdx])
  /\ pc' = "execAwait"
  /\ inFlight' = inFlight \cup {tcIdx}
  /\ markers' = Emit(<<Marker("tool_executing", toolCalls[tcIdx].name)>>)
  /\ dispatchMap' = toolToServerMap
  /\ UNCHANGED <<worldVars, regVars, cacheVars, procs, reqLog, req, localPR,
                 perRequestServers, perRequestTools, backendLog, toolCalls,
                 tcIdx, toolResults, execLog, failedIn, enhancedOptions,
                 streamVars, listVars, sessions, restartVars, directLog,
                 followUp, lastChunk, yielded, overlapping,
                 detached>>

\* The routing table as the iteration in progress reads it.  A dispatched
\* call without per-request servers has read it before its first await
\* (the test `has` and the `get` of _callToolByName); with per-request
\* servers _callToolByName reads it after their tools/list requests.
MapRead ==
  IF pc = "execAwait" /\ Len(perRequestServers) = 0
  THEN dispatchMap ELSE toolToServerMap

\* T_Exec in which a failed execution leaves no message on toolResults.
T_ExecSkipping ==
  /\ \/ pc = "execAwait"
     \/ pc = "exec" /\ tcIdx <= Len(toolCalls)
          /\ ~Dispatches(toolCalls[tcIdx])
  /\ LET tc == toolCalls[tcIdx]
         e  == ExecToolCall(tc, req.stream, perRequestServers,
                            mcpServerInstances, MapRead, mcpEnabled,
                            mcpClient, endpoint)
     IN /\ toolResults' = IF e.kind = "error" THEN toolResults
                        ELSE Append(toolResults, e.msg)
        /\ execLog' = Append(execLog,
                        [call |-> tc, kind |-> e.kind, server |-> e.server,
                         asked |-> [i \in DOMAIN e.log |-> e.log[i].server]])
        /\ reqLog' = reqLog \o e.log
        /\ markers' = Emit((IF pc = "exec"
                             THEN <<Marker("tool_executing", tc.name)>>
                             ELSE <<>>) \o MarkersAfter(tc, e.kind))
  /\ tcIdx' = tcIdx + 1
  /\ pc' = "exec"
  /\ inFlight' = inFlight \ {tcIdx}
  /\ UNCHANGED <<worldVars, regVars, cacheVars, procs, req, localPR,
                 perRequestServers, perRequestTools, backendLog, toolCalls,
                 failedIn, enhancedOptions, streamVars, listVars, sessions,
                 restartVars, directLog, followUp, lastChunk, yielded,
                 dispatchMap, overlapping,
                 detached>>

\* One iteration of the tool execution loop, on either path, up to the push
\* on toolResults: a tool call that is not handed to _callToolWithServers
\* is answered at once, a dispatched one when its execution has settled.
T_Exec ==
  /\ \/ pc = "execAwait"
     \/ pc = "exec" /\ tcIdx <= Len(toolCalls)
          /\ ~Dispatches(toolCalls[tcIdx])
  /\ LET tc == toolCalls[tcIdx]
         e  == ExecToolCall(tc, req.stream, perRequestServers,
                            mcpServerInstances, MapRead, mcpEnabled,
                            mcpClient, endpoint)
     IN /\ toolResults' = Append(toolResults, e.msg)
        /\ execLog' = Append(execLog,
                        [call |-> tc, kind |-> e.kind, server |-> e.server,
                         asked |-> [i \in DOMAIN e.log |-> e.log[i].server]])
        /\ reqLog' = reqLog \o e.log
        /\ markers' = Emit((IF pc = "exec"
                             THEN <<Marker("tool_executing", tc.name)>>
                             ELSE <<>>) \o MarkersAfter(tc, e.kind))
  /\ tcIdx' = tcIdx + 1
  /\ pc' = "exec"
  /\ inFlight' = inFlight \ {tcIdx}
  /\ UNCHANGED <<worldVars, regVars, cacheVars, procs, req, localPR,
                 perRequestServers, perRequestTools, backendLog, toolCalls,
                 failedIn, enhancedOptions, streamVars, listVars, sessions,
                 restartVars, directLog, followUp, lastChunk, yielded,
                 dispatchMap, overlapping,
                 detached>>

\* T_ExecDone in which the error of a failed tool execution is raised to
\* the caller once the loop has ended, in place of the follow-up call.
T_ExecDoneRaising ==
  /\ pc = "exec" /\ tcIdx > Len(toolCalls)
  /\ IF \E i \in DOMAIN execLog : execLog[i].kind = "error"
       THEN /\ pc' = "failed" /\ failedIn' = "exec"
            /\ UNCHANGED <<procs, backendLog>>
     ELSE IF Len(toolResults) > 0
       THEN /\ pc' = "awaitFollowUp"
            /\ backendLog' = Append(backendLog,
                 IF req.stream
                 THEN FollowUpStreaming(enhancedOptions, toolCalls,
                                        toolResults)
                 ELSE FollowUpNonStreaming(req, toolCalls, toolResults))
            /\ UNCHANGED <<procs, failedIn>>
     ELSE /\ pc' = "done"
          /\ procs' = IF req.stream THEN procs ELSE Finally(procs)
          /\ UNCHANGED <<backendLog, failedIn>>
  /\ markers' = IF Len(toolResults) > 0
                  /\ ~\E i \in DOMAIN execLog : execLog[i].kind = "error"
                THEN Emit(<<Marker("tools_completed", ""),
                            Marker("final_response_start", "")>>)
                ELSE markers
  /\ UNCHANGED <<worldVars, regVars, cacheVars, reqLog, req, localPR,
                 perRequestServers, perRequestTools, toolCalls, tcIdx,
                 toolResults, execLog, enhancedOptions, streamVars,
                 listVars, sessions, restartVars, directLog, inFlight,
                 followUp, lastChunk, yielded, dispatchMap, overlapping,
                 detached>>

\* The loop has ended: the follow-up request is handed to the backend when
\* there are tool results; otherwise the turn returns.
T_ExecDone ==
  /\ pc = "exec" /\ tcIdx > Len(toolCalls)
  /\ IF Len(toolResults) > 0
       THEN /\ pc' = "awaitFollowUp"
            /\ backendLog' = Append(backendLog,
                 IF req.stream
                 THEN FollowUpStreaming(enhancedOptions, toolCalls,
                                        toolResults)
                 ELSE FollowUpNonStreaming(req, toolCalls, toolResults))
            /\ UNCHANGED procs
     ELSE /\ pc' = "done"
          /\ procs' = IF req.stream THEN procs ELSE Finally(procs)
          /\ UNCHANGED backendLog
  /\ markers' = IF Len(toolResults) > 0
                THEN Emit(<<Marker("tools_completed", ""),
                            Marker("final_response_start", "")>>)
                ELSE markers
  /\ UNCHANGED <<worldVars, regVars, cacheVars, reqLog, req, localPR,
                 perRequestServers, perRequestTools, toolCalls, tcIdx,
                 toolResults, execLog, failedIn, enhancedOptions, streamVars,
                 listVars, sessions, restartVars, directLog, inFlight,
                 followUp, lastChunk, yielded, dispatchMap, overlapping,
                 detached>>

\* T_FollowUpResponse that treats the follow-up response like the first
\* one: the tool calls it carries enter the execution loop.
T_FollowUpResponseRecursing(resp) ==
  /\ pc = "awaitFollowUp"
  /\ followUp' = resp
  /\ markers' = IF req.stream /\ ~resp.throws
                THEN Append(markers, Marker("followup_chunk", ""))
                ELSE markers
  /\ IF resp.throws
       THEN /\ pc' = "failed" /\ failedIn' = "followup"
            /\ procs' = IF req.stream THEN procs ELSE Finally(procs)
            /\ UNCHANGED <<toolCalls, tcIdx>>
     ELSE IF resp.hasCalls /\ Len(resp.tool_calls) > 0
       THEN /\ pc' = "exec"
            /\ toolCalls' = toolCalls \o resp.tool_calls
            /\ tcIdx' = Len(toolCalls) + 1
            /\ UNCHANGED <<procs, failedIn>>
     ELSE /\ pc' = "done"
          /\ procs' = IF req.stream THEN procs ELSE Finally(procs)
          /\ UNCHANGED <<toolCalls, tcIdx, failedIn>>
  /\ UNCHANGED <<worldVars, regVars, cacheVars, reqLog, req, localPR,
                 perRequestServers, perRequestTools, backendLog,
                 toolResults, execLog, enhancedOptions, streamVars,
                 listVars, sessions, restartVars, directLog, inFlight,
                 lastChunk, yielded, dispatchMap, overlapping,
                 detached>>

\* The follow-up backend call returns resp (on the streaming path: its
\* stream, whose chunks are yielded as they come, has ended) or throws.
\* The response goes to the caller; the tool calls it carries are not
\* looked at.
T_FollowUpResponse(resp) ==
  /\ pc = "awaitFollowUp"
  /\ followUp' = resp
  /\ markers' = IF req.stream /\ ~resp.throws
                THEN Append(markers, Marker("followup_chunk", ""))
                ELSE markers
  /\ pc' = IF resp.throws THEN "failed" ELSE "done"
  /\ failedIn' = IF resp.throws THEN "followup" ELSE failedIn
  /\ procs' = IF req.stream THEN procs ELSE Finally(procs)
  /\ UNCHANGED <<worldVars, regVars, cacheVars, reqLog, req, localPR,
                 perRequestServers, perRequestTools, backendLog, toolCalls,
                 tcIdx, toolResults, execLog, enhancedOptions, streamVars,
                 listVars, sessions, restartVars, directLog, inFlight,
                 lastChunk, yielded, dispatchMap, overlapping,
                 detached>>

-----------------------------------------------------------------------------
(* The streaming path: the generator of _createStreamingWithTools *)

\* A chunk of the first stream: delta.content, delta.tool_calls (hasCalls
\* says whether the field is there) and finish_reason.
Chunk(content, hasCalls, deltas, finish) ==
  [content |-> content, hasCalls |-> hasCalls, deltas |-> deltas,
   finish |-> finish]

\* No chunk read yet.
NoChunk == Chunk("", FALSE, <<>>, "")

\* The caller starts to iterate: the first request goes to the backend.
S_Begin ==
  /\ pc = "genCreated"
  /\ backendLog' = Append(backendLog, enhancedOptions)
  /\ pc' = "awaitStream"
  /\ UNCHANGED <<worldVars, regVars, cacheVars, procs, reqLog, req, localPR,
                 perRequestServers, perRequestTools, toolCalls, tcIdx,
                 toolResults, execLog, failedIn, enhancedOptions, streamVars,
                 listVars, opVars>>

\* createChatCompletion returns the first stream or throws.
S_Open(throws) ==
  /\ pc = "awaitStream"
  /\ pc' = IF throws THEN "failed" ELSE "streaming"
  /\ failedIn' = IF throws THEN "backend" ELSE failedIn
  /\ UNCHANGED <<worldVars, regVars, cacheVars, procs, reqLog, req, localPR,
                 perRequestServers, perRequestTools, backendLog, toolCalls,
                 tcIdx, toolResults, execLog, enhancedOptions, streamVars,
                 listVars, opVars>>

\* Something the generator yields: a chunk of the backend, or an event of
\* the tool execution feedback.
Forwarded(c) == [kind |-> "chunk", chunk |-> c]

FeedbackEvent(type) == [kind |-> type, chunk |-> NoChunk]

\* What one iteration of the loop over the first stream yields for chunk c:
\* the chunk once for each of the three tests it passes (content, tool-call
\* deltas, finish reason), and the tool_call_detected event before the first
\* buffered delta when the feedback is on.
YieldsFor(c, feedback, buf) ==
  (IF c.content # "" THEN <<Forwarded(c)>> ELSE <<>>)
  \o (IF c.hasCalls
        THEN (IF feedback /\ Len(buf) = 0
              THEN <<FeedbackEvent("tool_call_detected")>> ELSE <<>>)
             \o <<Forwarded(c)>>
      ELSE <<>>)
  \o (IF c.finish # "" THEN <<Forwarded(c)>> ELSE <<>>)

\* The body of `for await (const chunk of initialStream)` for one chunk.
S_Chunk(c) ==
  /\ pc = "streaming" /\ chunks < MaxChunks
  /\ chunks' = chunks + 1
  /\ lastChunk' = c
  /\ yielded' = YieldsFor(c, req.toolExecutionFeedback, toolCallsBuffer)
  /\ markers' = IF c.hasCalls /\ Len(toolCallsBuffer) = 0
                THEN Emit(<<Marker("tool_call_detected", "")>>)
                ELSE markers
  /\ IF c.hasCalls
       THEN /\ hasToolCalls' = TRUE
            /\ toolCallsBuffer' = ApplyDeltas(toolCallsBuffer, c.deltas, now)
            /\ sent' = Stream(sent, c.deltas)
     ELSE UNCHANGED <<hasToolCalls, toolCallsBuffer, sent>>
  /\ UNCHANGED <<worldVars, regVars, cacheVars, procs, reqLog, turnVars,
                 listVars, sessions, restartVars, directLog, inFlight,
                 followUp, dispatchMap, overlapping,
                 detached>>

\* The first stream has ended: return when no tool call was seen or none
\* passes the filter, else enter the execution loop.
S_End ==
  /\ pc = "streaming"
  /\ LET tcs == FinalizeToolCalls(toolCallsBuffer)
     IN IF ~hasToolCalls \/ Len(tcs) = 0
          THEN /\ pc' = "done"
               /\ UNCHANGED <<toolCalls, tcIdx>>
        ELSE /\ pc' = "exec"
             /\ toolCalls' = tcs
             /\ tcIdx' = 1
  /\ markers' = IF hasToolCalls /\ Len(FinalizeToolCalls(toolCallsBuffer)) > 0
                THEN Emit(<<Marker("tool_execution_start", "")>>)
                ELSE markers
  /\ UNCHANGED <<worldVars, regVars, cacheVars, procs, reqLog, req, localPR,
                 perRequestServers, perRequestTools, backendLog, toolResults,
                 execLog, failedIn, enhancedOptions, streamVars, listVars,
                 sessions, restartVars, directLog, inFlight,
                 followUp, lastChunk, yielded, dispatchMap, overlapping,
                 detached>>

-----------------------------------------------------------------------------
(* Direct calls of getMCPTools (listAvailableTools) and the clock *)

Tick ==
  /\ now + TickStep <= MaxTime
  /\ now' = now + TickStep
  /\ UNCHANGED <<endpoint, regVars, cacheVars, procs, reqLog, turnVars,
                 streamVars, listVars, opVars>>

\* getMCPTools up to its first await after initialization: read the clock,
\* test the cache; on a miss _getMCPToolsInternal clears the routing table
\* and sends its first request.
L_Begin ==
  /\ lpc = "idle" /\ initDone /\ Len(listLog) < MaxListCalls
  /\ lnow' = now
  /\ IF CacheHit(mcpToolsCache, mcpLastCacheTime, now)
       \/ ~mcpEnabled \/ DOMAIN mcpServerInstances = {}
       THEN /\ listLog' = Append(listLog,
                  [t |-> now, batch |-> FALSE, queries |-> 0,
                   tools |-> GetMCPTools(now).tools])
            /\ UNCHANGED <<lpc, toolToServerMap>>
     ELSE /\ lpc' = "batch"
          /\ toolToServerMap' = EmptyMap
          /\ UNCHANGED listLog
  /\ UNCHANGED <<worldVars, regVars, mcpToolsCache, mcpLastCacheTime, procs,
                 reqLog, turnVars, streamVars, opVars>>

\* The batch of tools/list requests has been answered: the merged list is
\* stored with the time read at the start of the call.
L_End ==
  /\ lpc = "batch"
  /\ LET b == GetMCPToolsInternal(mcpServersConfig, mcpServerInstances,
                                  endpoint)
     IN /\ toolToServerMap' = b.map
        /\ mcpToolsCache' = [set |-> TRUE, tools |-> b.tools]
        /\ mcpLastCacheTime' = lnow
        /\ reqLog' = reqLog \o b.log
        /\ listLog' = Append(listLog,
             [t |-> lnow, batch |-> TRUE, queries |-> Len(b.log),
              tools |-> b.tools])
  /\ lpc' = "idle"
  /\ UNCHANGED <<worldVars, regVars, procs, turnVars, streamVars, lnow,
                 opVars>>

\* The second caller of getMCPTools before its call: pc is its position,
\* lnow the clock it read, during says whether the first caller was in its
\* batch when it began, and batch, queries, tools describe what its call
\* did and returned once done.
NoListCall ==
  [pc |-> "idle", done |-> FALSE, lnow |-> 0, during |-> FALSE,
   batch |-> FALSE, queries |-> 0, tools |-> <<>>]

\* getMCPTools of the second caller up to its first await after
\* initialization, as L_Begin.
O_Begin ==
  /\ overlapping.pc = "idle" /\ ~overlapping.done /\ initDone
  /\ IF CacheHit(mcpToolsCache, mcpLastCacheTime, now)
       \/ ~mcpEnabled \/ DOMAIN mcpServerInstances = {}
       THEN /\ overlapping' = [overlapping EXCEPT
                  !.done = TRUE, !.lnow = now, !.during = (lpc = "batch"),
                  !.tools = GetMCPTools(now).tools]
            /\ UNCHANGED toolToServerMap
     ELSE /\ overlapping' = [overlapping EXCEPT
                !.pc = "batch", !.lnow = now, !.during = (lpc = "batch")]
          /\ toolToServerMap' = EmptyMap
  /\ UNCHANGED <<worldVars, regVars, mcpToolsCache, mcpLastCacheTime, procs,
                 reqLog, turnVars, streamVars, listVars, sessions,
                 restartVars, directLog, inFlight, followUp, lastChunk,
                 yielded, markers, dispatchMap, detached>>

\* The batch of the second caller has been answered, as L_End.
O_End ==
  /\ overlapping.pc = "batch"
  /\ LET b == GetMCPToolsInternal(mcpServersConfig, mcpServerInstances,
                                  endpoint)
     IN /\ toolToServerMap' = b.map
        /\ mcpToolsCache' = [set |-> TRUE, tools |-> b.tools]
        /\ mcpLastCacheTime' = overlapping.lnow
        /\ reqLog' = reqLog \o b.log
        /\ overlapping' = [overlapping EXCEPT
              !.pc = "idle", !.done = TRUE, !.batch = TRUE,
              !.queries = Len(b.log), !.tools = b.tools]
  /\ UNCHANGED <<worldVars, regVars, procs, turnVars, streamVars, listVars,
                 sessions, restartVars, directLog, inFlight, followUp,
                 lastChunk, yielded, markers, dispatchMap, detached>>

-----------------------------------------------------------------------------
(* Initial states and specifications *)

Urls == {"u_fs", "u_db", "u_w", "u_x", "u_a"}

\* The state right after the constructor, for a configuration, the
\* mcpEnabled option and the behaviour of the endpoints.
Constructor(config, enabled, ep) ==
  /\ now = 0
  /\ endpoint = ep
  /\ sessions = [u \in Urls |-> 0]
  /\ mcpServersConfig = config
  /\ mcpEnabled = enabled
  /\ mcpClient = (enabled /\ config # <<>>)
  /\ LET c == Constructed(config, enabled, 0)
     IN /\ mcpServerInstances = c.reg
        /\ startPc = c.pcs
        /\ procs = c.procs
        /\ reqLog = c.log
  /\ initDone = FALSE
  /\ mcpToolsCache = NoCache
  /\ mcpLastCacheTime = 0
  /\ toolToServerMap = EmptyMap
  /\ pc = "idle"
  /\ req = NoOptions
  /\ localPR = <<>>
  /\ perRequestServers = <<>>
  /\ perRequestTools = <<>>
  /\ backendLog = <<>>
  /\ toolCalls = <<>>
  /\ tcIdx = 1
  /\ toolResults = <<>>
  /\ execLog = <<>>
  /\ failedIn = ""
  /\ enhancedOptions = BackendRequest(FALSE, <<>>, "", FALSE, FALSE, <<>>)
  /\ toolCallsBuffer = <<>>
  /\ hasToolCalls = FALSE
  /\ sent = EmptyMap
  /\ chunks = 0
  /\ lpc = "idle"
  /\ lnow = 0
  /\ listLog = <<>>
  /\ initSession = EmptyMap
  /\ restarting = {}
  /\ restartLog = <<>>
  /\ directLog = <<>>
  /\ inFlight = {}
  /\ followUp = NoResponse
  /\ lastChunk = NoChunk
  /\ yielded = <<>>
  /\ markers = <<>>
  /\ dispatchMap = EmptyMap
  /\ overlapping = NoListCall
  /\ detached = <<>>

Server(name, def) == [name |-> name, def |-> def]

AllOk == [u \in Urls |-> "ok"]

\* --- Turns with per-request servers ---------------------------------------

\* Global configuration: an HTTP server fs, and an HTTP server whose name is
\* the one _initializePerRequestServers generates for the per-request key
\* "a" at clock 0 (a per-request HTTP server sends `initialize` only when
\* its generated name is a key of this.mcpServerInstances).
TurnConfig ==
  <<Server("fs", Def("", "http", "u_fs")),
    Server(TempName("a", 0), Def("", "", "u_x"))>>

TurnEndpoints == {[AllOk EXCEPT !["u_x"] = d] : d \in {"ok", "nomarker"}}

CmdServer == Server("c", Def("run", "", ""))
BadServer == Server("bad", Def("", "", ""))
HttpA     == Server("a", Def("", "http", "u_a"))
HttpW     == Server("w", Def("", "http", "u_a"))

PRLists == {<<CmdServer>>, <<CmdServer, BadServer>>, <<HttpA>>, <<HttpW>>,
            <<CmdServer, HttpA>>}

TurnRequests ==
  {Options(s, FALSE, <<>>, <<>>, "", FALSE) : s \in BOOLEAN}
  \cup {Options(s, TRUE, l, <<>>, "", FALSE) : s \in BOOLEAN, l \in PRLists}

ToolCall(id, name, args) == [id |-> id, name |-> name, args |-> args]

TurnCalls ==
  {ToolCall("call_1", "read_file", "{}"), ToolCall("call_2", "get_time", "{}"),
   ToolCall("call_3", "nope", "{}"), ToolCall("call_4", "nope", "{"),
   ToolCall("", "read_file", "{}"), ToolCall("call_5", "", "{}")}

RECURSIVE SeqsUpTo(_, _)
SeqsUpTo(S, n) ==
  IF n = 0 THEN {<<>>}
  ELSE LET shorter == SeqsUpTo(S, n - 1)
       IN shorter \cup {Append(q, x) : q \in shorter, x \in S}

TurnResponses ==
  {Response(TRUE, FALSE, <<>>), Response(FALSE, FALSE, <<>>)}
  \cup {Response(FALSE, TRUE, tcs) : tcs \in SeqsUpTo(TurnCalls, MaxToolCalls)}

TurnChunks ==
  {Chunk("text", FALSE, <<>>, ""),
   Chunk("", TRUE, <<Delta(0, "call_1", "read_file", "{}")>>, ""),
   Chunk("", TRUE, <<Delta(0, "call_2", "get_time", "{}")>>, ""),
   Chunk("", TRUE, <<Delta(0, "", "nope", "")>>, ""),
   Chunk("", TRUE, <<Delta(0, "", "", "{")>>, ""),
   Chunk("", TRUE, <<Delta(0, "", "", "}")>>, "")}

InitTurn == \E ep \in TurnEndpoints : Constructor(TurnConfig, TRUE, ep)

NextTurn ==
  \/ \E n \in DOMAIN startPc : G_InitResponse(n)
  \/ \E n \in DOMAIN startPc : G_NotifyResponse(n)
  \/ G_Finish
  \/ (initDone /\ \E r \in TurnRequests : T_Start(r))
  \/ T_PRNext
  \/ \E ev \in {"spawn", "error", "timeout"} : T_PRSpawnEvent(ev)
  \/ T_PRInitResponse
  \/ T_PRDone
  \/ T_GetTools
  \/ \E resp \in TurnResponses : T_BackendResponse(resp)
  \/ T_ExecBegin
  \/ T_Exec
  \/ T_ExecDone
  \/ \E resp \in PlainFollowUps : T_FollowUpResponse(resp)
  \/ S_Begin
  \/ \E throws \in BOOLEAN : S_Open(throws)
  \/ \E c \in TurnChunks : S_Chunk(c)
  \/ S_End

SpecTurn == InitTurn /\ [][NextTurn]_vars

\* --- Streaming reconstruction ----------------------------------------------

StreamConfig == <<Server("weather", Def("", "streamable-http", "u_w"))>>

StreamEndpoints == {[AllOk EXCEPT !["u_w"] = d] : d \in {"ok", "rpcerror"}}

StreamRequests == {Options(TRUE, FALSE, <<>>, <<>>, "", FALSE)}

\* Index 0 receives its name and arguments in any fragments; index 1
\* receives whole fields or empty deltas.
StreamChunks ==
  {Chunk("text", FALSE, <<>>, ""), Chunk("", TRUE, <<>>, "stop")}
  \cup {Chunk("", TRUE, <<Delta(0, id, nm, a)>>, "") :
          id \in {"", "call_9"},
          nm \in {"", "get_", "weath", "er"},
          a \in {"", "{", "}"}}
  \cup {Chunk("", TRUE, <<Delta(1, "", "query", "{}")>>, ""),
        Chunk("", TRUE, <<Delta(1, "", "", "")>>, ""),
        Chunk("", TRUE, <<Delta(0, "call_9", "get_", ""),
                          Delta(1, "call_8", "", "{")>>, "")}

InitStream == \E ep \in StreamEndpoints : Constructor(StreamConfig, TRUE, ep)

NextStream ==
  \/ \E n \in DOMAIN startPc : G_InitResponse(n)
  \/ \E n \in DOMAIN startPc : G_NotifyResponse(n)
  \/ G_Finish
  \/ (initDone /\ \E r \in StreamRequests : T_Start(r))
  \/ T_GetTools
  \/ S_Begin
  \/ \E throws \in BOOLEAN : S_Open(throws)
  \/ \E c \in StreamChunks : S_Chunk(c)
  \/ S_End
  \/ T_ExecBegin
  \/ T_Exec
  \/ T_ExecDone
  \/ \E resp \in PlainFollowUps : T_FollowUpResponse(resp)

SpecStream == InitStream /\ [][NextStream]_vars

\* --- Chunks of the first stream as the caller sees them ---------------------

PassRequests == {Options(TRUE, FALSE, <<>>, <<>>, "", f) : f \in BOOLEAN}

\* Chunks carrying each combination of content, tool-call deltas and finish
\* reason, and one carrying none of them (a role-only delta).
PassChunks ==
  {Chunk(c, d # <<>>, d, f) :
     c \in {"", "text"},
     d \in {<<>>, <<Delta(0, "call_9", "get_weather", "{}")>>},
     f \in {"", "stop"}}

InitPass == Constructor(StreamConfig, TRUE, AllOk)

NextPass ==
  \/ \E n \in DOMAIN startPc : G_InitResponse(n)
  \/ \E n \in DOMAIN startPc : G_NotifyResponse(n)
  \/ G_Finish
  \/ (initDone /\ \E r \in PassRequests : T_Start(r))
  \/ T_GetTools
  \/ S_Begin
  \/ S_Open(FALSE)
  \/ \E c \in PassChunks : S_Chunk(c)
  \/ S_End
  \/ T_ExecBegin
  \/ T_Exec
  \/ T_ExecDone
  \/ \E resp \in ReturnedFollowUps : T_FollowUpResponse(resp)

SpecPass == InitPass /\ [][NextPass]_vars

\* --- The tool catalog cache -------------------------------------------------

ListConfig ==
  <<Server("fs", Def("", "http", "u_fs")),
    Server("db", Def("", "", "u_db")),
    Server("local", Def("run", "", ""))>>

ListEndpoints ==
  {[AllOk EXCEPT !["u_fs"] = d1, !["u_db"] = d2] :
     d1 \in {"ok", "nomarker"}, d2 \in {"ok", "http500"}}

InitList == \E ep \in ListEndpoints : Constructor(ListConfig, TRUE, ep)

NextList ==
  \/ \E n \in DOMAIN startPc : G_InitResponse(n)
  \/ \E n \in DOMAIN startPc : G_NotifyResponse(n)
  \/ \E n \in DOMAIN startPc, ev \in {"spawn", "error", "timeout"} :
       G_SpawnEvent(n, ev)
  \/ G_Finish
  \/ Tick
  \/ L_Begin
  \/ L_End

SpecList == InitList /\ [][NextList]_vars

\* --- The registry: batch initialization, restart, status --------------------

\* Two HTTP servers, a definition with neither command nor url/type, and a
\* subprocess server.
RegConfig ==
  <<Server("fs", Def("", "http", "u_fs")),
    BadServer,
    Server("db", Def("", "", "u_db")),
    Server("local", Def("run", "", ""))>>

RegNames == {RegConfig[i].name : i \in DOMAIN RegConfig}

RegEndpoints ==
  {[AllOk EXCEPT !["u_fs"] = d1, !["u_db"] = d2] :
     d1 \in {"ok", "noresult", "nomarker", "rpcerror", "http500"},
     d2 \in {"ok", "http500"}}

InitReg == \E ep \in RegEndpoints : Constructor(RegConfig, TRUE, ep)

NextReg ==
  \/ \E n \in DOMAIN startPc : G_InitResponse(n)
  \/ \E n \in DOMAIN startPc : G_NotifyResponse(n)
  \/ \E n \in DOMAIN startPc, ev \in {"spawn", "error", "timeout"} :
       G_SpawnEvent(n, ev)
  \/ G_Finish
  \/ Tick
  \/ \E n \in RegNames : R_Restart(n)
  \/ \E n \in RegNames : R_Return(n)

SpecReg == InitReg /\ [][NextReg]_vars

\* --- Restart next to the other registry operations ---------------------------

\* Two HTTP servers and a subprocess server; the clock stands still, so every
\* getMCPTools call falls within the TTL of the previous capture.
OpsConfig ==
  <<Server("fs", Def("", "http", "u_fs")),
    Server("db", Def("", "", "u_db")),
    Server("local", Def("run", "", ""))>>

OpsNames == {OpsConfig[i].name : i \in DOMAIN OpsConfig}

OpsEndpoints == {[AllOk EXCEPT !["u_db"] = d] : d \in {"ok", "rpcerror"}}

InitOps == \E ep \in OpsEndpoints : Constructor(OpsConfig, TRUE, ep)

NextOps ==
  \/ \E n \in DOMAIN startPc : G_InitResponse(n)
  \/ \E n \in DOMAIN startPc : G_NotifyResponse(n)
  \/ \E n \in DOMAIN startPc : G_SpawnEvent(n, "spawn")
  \/ G_Finish
  \/ \E n \in OpsNames : R_Restart(n)
  \/ \E n \in OpsNames : R_Return(n)
  \/ R_Capabilities("fs")
  \/ R_CallTool("fs", "read_file")
  \/ (Len(listLog) < MaxOpsLists /\ L_Begin)
  \/ L_End

SpecOps == InitOps /\ [][NextOps]_vars

\* --- Tool execution against servers that fail or restart --------------------

ExecConfig ==
  <<Server("fs", Def("", "http", "u_fs")),
    Server("db", Def("", "", "u_db"))>>

\* The endpoint of db answers correctly, or refuses from the start.
ExecEndpoints == {[AllOk EXCEPT !["u_db"] = d] : d \in {"ok", "rpcerror"}}

CallerTool == FormatTool("calc", "", FALSE)

ExecRequests ==
  {Options(s, FALSE, <<>>, tl, ch, FALSE) :
     s \in BOOLEAN, tl \in {<<>>, <<CallerTool>>}, ch \in {"", "required"}}

ExecCalls ==
  {ToolCall("call_1", "read_file", "{}"), ToolCall("call_2", "query", "{}"),
   ToolCall("call_3", "calc", "{}")}

ExecResponses ==
  {Response(TRUE, FALSE, <<>>), Response(FALSE, FALSE, <<>>)}
  \cup {Response(FALSE, TRUE, tcs) : tcs \in SeqsUpTo(ExecCalls, MaxToolCalls)}

ExecChunks ==
  {Chunk("", TRUE, <<Delta(0, "call_1", "read_file", "{}")>>, ""),
   Chunk("", TRUE, <<Delta(1, "call_2", "query", "{}")>>, "")}

\* The follow-up call throws, or returns a response without tool calls, or
\* one that asks for tools again.
ExecFollowUps ==
  {Response(TRUE, FALSE, <<>>), Response(FALSE, FALSE, <<>>),
   Response(FALSE, TRUE, <<ToolCall("call_4", "read_file", "{}")>>)}

InitExec == \E ep \in ExecEndpoints : Constructor(ExecConfig, TRUE, ep)

NextExec ==
  \/ \E n \in DOMAIN startPc : G_InitResponse(n)
  \/ \E n \in DOMAIN startPc : G_NotifyResponse(n)
  \/ G_Finish
  \/ (pc # "idle" /\ \E d \in {"http500", "rpcerror"} : E_Fail("u_fs", d))
  \/ (pc # "idle" /\ R_Restart("fs"))
  \/ R_Return("fs")
  \/ (initDone /\ \E r \in ExecRequests : T_Start(r))
  \/ T_GetTools
  \/ \E resp \in ExecResponses : T_BackendResponse(resp)
  \/ S_Begin
  \/ \E throws \in BOOLEAN : S_Open(throws)
  \/ \E c \in ExecChunks : S_Chunk(c)
  \/ S_End
  \/ T_ExecBegin
  \/ T_Exec
  \/ T_ExecDone
  \/ \E resp \in ExecFollowUps : T_FollowUpResponse(resp)

SpecExec == InitExec /\ [][NextExec]_vars

\* --- Marker chunks of a streaming turn ----------------------------------------

FeedbackConfig == <<Server("fs", Def("", "http", "u_fs"))>>

\* Streaming turns with and without toolExecutionFeedback, with and without
\* a tool of the caller's own.
FeedbackRequests ==
  {Options(TRUE, FALSE, <<>>, tl, "", f) :
     tl \in {<<>>, <<CallerTool>>}, f \in BOOLEAN}

\* Tool calls for a tool of fs with arguments that decode or not, for the
\* caller's tool, and a chunk whose delta.tool_calls is an empty array.
FeedbackChunks ==
  {Chunk("", TRUE, <<Delta(0, "call_1", "read_file", a)>>, "") :
     a \in {"{}", "{"}}
  \cup {Chunk("", TRUE, <<Delta(1, "call_3", "calc", "{}")>>, ""),
        Chunk("", TRUE, <<>>, ""),
        Chunk("text", FALSE, <<>>, "")}

InitFeedback == Constructor(FeedbackConfig, TRUE, AllOk)

NextFeedback ==
  \/ \E n \in DOMAIN startPc : G_InitResponse(n)
  \/ \E n \in DOMAIN startPc : G_NotifyResponse(n)
  \/ G_Finish
  \/ (pc # "idle" /\ E_Fail("u_fs", "http500"))
  \/ (initDone /\ \E r \in FeedbackRequests : T_Start(r))
  \/ T_GetTools
  \/ S_Begin
  \/ S_Open(FALSE)
  \/ \E c \in FeedbackChunks : S_Chunk(c)
  \/ S_End
  \/ T_ExecBegin
  \/ T_Exec
  \/ T_ExecDone
  \/ \E resp \in PlainFollowUps : T_FollowUpResponse(resp)

SpecFeedback == InitFeedback /\ [][NextFeedback]_vars

\* --- A turn executing tools while list() rebuilds the catalog -----------------

RaceConfig == <<Server("fs", Def("", "http", "u_fs"))>>

RaceRequests == {Options(s, FALSE, <<>>, <<>>, "", FALSE) : s \in BOOLEAN}

\* The backend asks for read_file, a tool of fs.
RaceResponses ==
  {Response(FALSE, TRUE, <<ToolCall("call_1", "read_file", "{}")>>)}

RaceChunks ==
  {Chunk("", TRUE, <<Delta(0, "call_1", "read_file", "{}")>>, "")}

InitRace == Constructor(RaceConfig, TRUE, AllOk)

NextRace ==
  \/ \E n \in DOMAIN startPc : G_InitResponse(n)
  \/ \E n \in DOMAIN startPc : G_NotifyResponse(n)
  \/ G_Finish
  \/ Tick
  \/ L_Begin
  \/ L_End
  \/ (initDone /\ \E r \in RaceRequests : T_Start(r))
  \/ T_GetTools
  \/ \E resp \in RaceResponses : T_BackendResponse(resp)
  \/ S_Begin
  \/ S_Open(FALSE)
  \/ \E c \in RaceChunks : S_Chunk(c)
  \/ S_End
  \/ T_ExecBegin
  \/ T_Exec
  \/ T_ExecDone
  \/ \E resp \in ReturnedFollowUps : T_FollowUpResponse(resp)

SpecRace == InitRace /\ [][NextRace]_vars

\* --- Two callers of list() at the same time ----------------------------------

TwoListsConfig ==
  <<Server("fs", Def("", "http", "u_fs")),
    Server("db", Def("", "", "u_db"))>>

InitTwoLists == Constructor(TwoListsConfig, TRUE, AllOk)

NextTwoLists ==
  \/ \E n \in DOMAIN startPc : G_InitResponse(n)
  \/ \E n \in DOMAIN startPc : G_NotifyResponse(n)
  \/ G_Finish
  \/ Tick
  \/ L_Begin
  \/ L_End
  \/ O_Begin
  \/ O_End

SpecTwoLists == InitTwoLists /\ [][NextTwoLists]_vars

\* --- Termination of initialization and of a turn ------------------------------

LiveConfig ==
  <<Server("fs", Def("", "http", "u_fs")),
    BadServer,
    Server("local", Def("run", "", ""))>>

LiveEndpoints == {[AllOk EXCEPT !["u_fs"] = d] : d \in {"ok", "http500"}}

LiveRequests ==
  {Options(s, FALSE, <<>>, <<>>, "", FALSE) : s \in BOOLEAN}
  \cup {Options(s, TRUE, <<CmdServer>>, <<>>, "", FALSE) : s \in BOOLEAN}

LiveCalls ==
  {ToolCall("call_1", "read_file", "{}"), ToolCall("call_3", "calc", "{")}

LiveResponses ==
  {Response(TRUE, FALSE, <<>>), Response(FALSE, FALSE, <<>>)}
  \cup {Response(FALSE, TRUE, tcs) : tcs \in SeqsUpTo(LiveCalls, MaxToolCalls)}

LiveChunks ==
  {Chunk("text", FALSE, <<>>, ""),
   Chunk("", TRUE, <<Delta(0, "call_1", "read_file", "{}")>>, ""),
   Chunk("", TRUE, <<Delta(1, "call_3", "calc", "{")>>, "")}

InitLive == \E ep \in LiveEndpoints : Constructor(LiveConfig, TRUE, ep)

NextLive ==
  \/ \E n \in DOMAIN startPc : G_InitResponse(n)
  \/ \E n \in DOMAIN startPc : G_NotifyResponse(n)
  \/ \E n \in DOMAIN startPc, ev \in {"spawn", "error", "timeout"} :
       G_SpawnEvent(n, ev)
  \/ G_Finish
  \/ \E r \in LiveRequests : T_Start(r)
  \/ T_PRNext
  \/ \E ev \in {"spawn", "error", "timeout"} : T_PRSpawnEvent(ev)
  \/ T_PRDone
  \/ T_GetTools
  \/ \E resp \in LiveResponses : T_BackendResponse(resp)
  \/ T_ExecBegin
  \/ T_Exec
  \/ T_ExecDone
  \/ \E resp \in PlainFollowUps : T_FollowUpResponse(resp)
  \/ S_Begin
  \/ \E throws \in BOOLEAN : S_Open(throws)
  \/ \E c \in LiveChunks : S_Chunk(c)
  \/ S_End

\* The steps that end a server start or a protocol request of batch
\* initialization, and the continuation of initializeMCP.
LiveInitStep ==
  \/ \E n \in DOMAIN startPc : G_InitResponse(n)
  \/ \E n \in DOMAIN startPc : G_NotifyResponse(n)
  \/ \E n \in DOMAIN startPc, ev \in {"spawn", "error", "timeout"} :
       G_SpawnEvent(n, ev)
  \/ G_Finish

\* The steps of a turn that has been started: the continuations of its code
\* and the answers of servers and backend it waits for.
LiveTurnStep ==
  \/ T_PRNext
  \/ \E ev \in {"spawn", "error", "timeout"} : T_PRSpawnEvent(ev)
  \/ T_PRDone
  \/ T_GetTools
  \/ \E resp \in LiveResponses : T_BackendResponse(resp)
  \/ T_ExecBegin
  \/ T_Exec
  \/ T_ExecDone
  \/ \E resp \in PlainFollowUps : T_FollowUpResponse(resp)
  \/ S_Begin
  \/ \E throws \in BOOLEAN : S_Open(throws)
  \/ \E c \in LiveChunks : S_Chunk(c)
  \/ S_End

\* Every start, protocol request, backend call and stream that is waited
\* for eventually returns or fails, and code that can continue does.
SpecLive ==
  /\ InitLive /\ [][NextLive]_vars
  /\ WF_vars(LiveInitStep) /\ WF_vars(LiveTurnStep)

\* --- Subprocess start: launch signal, launch error and startup timer ----------

SpawnConfig ==
  <<Server("local", Def("run", "", "")),
    Server("fs", Def("", "http", "u_fs"))>>

SpawnNames == {SpawnConfig[i].name : i \in DOMAIN SpawnConfig}

InitSpawn == Constructor(SpawnConfig, TRUE, AllOk)

NextSpawn ==
  \/ \E n \in DOMAIN startPc : G_InitResponse(n)
  \/ \E n \in DOMAIN startPc : G_NotifyResponse(n)
  \/ \E n \in DOMAIN startPc, ev \in {"spawn", "error", "timeout"} :
       G_SpawnEvent(n, ev)
  \/ \E n \in DOMAIN startPc, ev \in {"spawn", "error"} : G_LateEvent(n, ev)
  \/ G_Finish
  \/ Tick
  \/ \E n \in SpawnNames : R_Restart(n)
  \/ \E n \in SpawnNames : R_Return(n)

SpecSpawn == InitSpawn /\ [][NextSpawn]_vars

\* --- Subprocesses that end after their start ----------------------------------

InitExit == Constructor(SpawnConfig, TRUE, AllOk)

NextExit ==
  \/ \E n \in DOMAIN startPc : G_InitResponse(n)
  \/ \E n \in DOMAIN startPc : G_NotifyResponse(n)
  \/ \E n \in DOMAIN startPc, ev \in {"spawn", "error", "timeout"} :
       G_SpawnEvent(n, ev)
  \/ G_Finish
  \/ Tick
  \/ \E n \in SpawnNames : E_Exit(n)
  \/ \E n \in SpawnNames : R_Restart(n)
  \/ \E n \in SpawnNames : R_Return(n)

SpecExit == InitExit /\ [][NextExit]_vars

\* --- Routing by tool name -----------------------------------------------------

\* Three HTTP servers; fs and a both serve read_file.
RouteConfig ==
  <<Server("fs", Def("", "http", "u_fs")),
    Server("a", Def("", "http", "u_a")),
    Server("db", Def("", "", "u_db"))>>

RouteTools == {"read_file", "get_time", "query", "nope"}

\* Each endpoint answers correctly at first; a and db may start to fail.
InitRoute == Constructor(RouteConfig, TRUE, AllOk)

NextRoute ==
  \/ \E n \in DOMAIN startPc : G_InitResponse(n)
  \/ \E n \in DOMAIN startPc : G_NotifyResponse(n)
  \/ G_Finish
  \/ Tick
  \/ (initDone /\ \E u \in {"u_a", "u_db"} : E_Fail(u, "http500"))
  \/ (Len(listLog) < MaxOpsLists /\ L_Begin)
  \/ L_End
  \/ (initDone /\ \E t \in RouteTools : R_CallToolByName(t))

SpecRoute == InitRoute /\ [][NextRoute]_vars

\* --- Restarts that overlap a start in progress --------------------------------

OverlapConfig ==
  <<Server("fs", Def("", "http", "u_fs")),
    BadServer,
    Server("local", Def("run", "", ""))>>

OverlapNames == {OverlapConfig[i].name : i \in DOMAIN OverlapConfig}

OverlapEndpoints == {[AllOk EXCEPT !["u_fs"] = d] : d \in {"ok", "http500"}}

InitOverlap == \E ep \in OverlapEndpoints : Constructor(OverlapConfig, TRUE, ep)

NextOverlap ==
  \/ \E n \in DOMAIN startPc : G_InitResponse(n)
  \/ \E n \in DOMAIN startPc : G_NotifyResponse(n)
  \/ \E n \in DOMAIN startPc, ev \in {"spawn", "error", "timeout"} :
       G_SpawnEvent(n, ev)
  \/ G_Finish
  \/ \E n \in OverlapNames : R_Restart(n)
  \/ \E n \in OverlapNames : R_RestartDuring(n)
  \/ \E n \in OverlapNames : R_Return(n)
  \/ \E k \in DOMAIN detached : D_InitResponse(k)
  \/ \E k \in DOMAIN detached : D_NotifyResponse(k)
  \/ \E k \in DOMAIN detached, ev \in {"spawn", "error", "timeout"} :
       D_SpawnEvent(k, ev)

SpecOverlap == InitOverlap /\ [][NextOverlap]_vars

\* --- Tool calls whose arguments do not decode --------------------------------

\* read_file arrives with arguments that are empty, cut short or complete;
\* query always arrives complete.  Both names are in the routing table.
ArgsCalls ==
  {ToolCall("call_1", "read_file", a) : a \in {"", "{", "{}"}}
  \cup {ToolCall("call_2", "query", "{}")}

ArgsRequests == {Options(s, FALSE, <<>>, <<>>, "", FALSE) : s \in BOOLEAN}

ArgsResponses ==
  {Response(FALSE, TRUE, tcs) : tcs \in SeqsUpTo(ArgsCalls, MaxToolCalls)}

ArgsChunks ==
  {Chunk("", TRUE, <<Delta(0, "call_1", "read_file", a)>>, "") :
     a \in {"", "{", "}"}}
  \cup {Chunk("", TRUE, <<Delta(1, "call_2", "query", "{}")>>, "")}

InitArgs == Constructor(ExecConfig, TRUE, AllOk)

NextArgs ==
  \/ \E n \in DOMAIN startPc : G_InitResponse(n)
  \/ \E n \in DOMAIN startPc : G_NotifyResponse(n)
  \/ G_Finish
  \/ (initDone /\ \E r \in ArgsRequests : T_Start(r))
  \/ T_GetTools
  \/ \E resp \in ArgsResponses : T_BackendResponse(resp)
  \/ S_Begin
  \/ S_Open(FALSE)
  \/ \E c \in ArgsChunks : S_Chunk(c)
  \/ S_End
  \/ T_ExecBegin
  \/ T_Exec
  \/ T_ExecDone
  \/ \E resp \in ReturnedFollowUps : T_FollowUpResponse(resp)

SpecArgs == InitArgs /\ [][NextArgs]_vars

-----------------------------------------------------------------------------
(* Properties *)

\* The child processes spawned for the per-request servers of the turn.
PerRequestProcs == {localPR[k].process : k \in DOMAIN localPR} \ {0}

TurnEnded == pc \in {"done", "failed"}

\* C1: when a turn that started per-request servers has reached DONE or
\* FAILED, no subprocess spawned for one of its per-request servers is
\* still live.
C1_NoLiveSubprocessAfterTurn ==
  TurnEnded => \A p \in PerRequestProcs : ~Live(procs[p])

\* C2: if an exception escapes the assembly phase of a turn, every
\* per-request subprocess spawned earlier in that turn has been killed.
C2_AssemblyFailureKillsSpawned ==
  (pc = "failed" /\ failedIn = "assembly") =>
    \A p \in PerRequestProcs : procs[p].state \notin {"launching", "running"}

\* C3: in a streaming turn the per-request servers are torn down only after
\* the tool-execution phase: while a tool call of the turn is executed,
\* every per-request subprocess that was started is still running.
C3_StreamingTeardownAfterExecution ==
  (req.stream /\ pc \in {"exec", "execAwait"}) =>
    \A k \in DOMAIN perRequestServers :
      (perRequestServers[k].type = "command"
         /\ perRequestServers[k].initialized)
      => procs[perRequestServers[k].process].state = "running"

IsHttpDef(def) == GetServerType(def) \in {"http", "streamable-http"}

\* C4: once the backend request of a turn has been made, every per-request
\* HTTP server of the turn whose endpoint answers `initialize` with a
\* result is connected, and each tool of its endpoint is in the tools array
\* of that backend request, tagged with that server.
C4_PerRequestHttpServerConnects ==
  Len(backendLog) >= 1 =>
    \A k \in DOMAIN req.mcpServers :
      (IsHttpDef(req.mcpServers[k].def)
         /\ endpoint[req.mcpServers[k].def.url] = "ok")
      => /\ k \in DOMAIN perRequestServers
         /\ perRequestServers[k].initialized
         /\ \A tn \in Range(EndpointTools(req.mcpServers[k].def.url)) :
              \E j \in DOMAIN backendLog[1].tools :
                /\ backendLog[1].tools[j].name = tn
                /\ backendLog[1].tools[j].server = perRequestServers[k].name

\* A connected per-request server of the turn serves the tool.
ServedPerRequest(toolName) ==
  \E k \in DOMAIN perRequestServers :
    /\ perRequestServers[k].initialized
    /\ perRequestServers[k].type # "command"
    /\ endpoint[perRequestServers[k].config.url] = "ok"
    /\ toolName \in Range(EndpointTools(perRequestServers[k].config.url))

PerRequestNames == {perRequestServers[k].name : k \in DOMAIN perRequestServers}

\* C5: a call to a tool served by a connected per-request server of the
\* turn is executed on a per-request server, whether or not the name is in
\* the global routing table.
C5_PerRequestServerTriedFirst ==
  \A i \in DOMAIN execLog :
    (JSONParses(execLog[i].call.args)
       /\ ServedPerRequest(execLog[i].call.name))
    => /\ execLog[i].kind = "executed"
       /\ execLog[i].server \in PerRequestNames

AbsentFromBoth(toolName) ==
  toolName \notin DOMAIN toolToServerMap /\ ~ServedPerRequest(toolName)

\* What C6 says of the processed tool call i.
ExternalOutcome(i) ==
  /\ i \in DOMAIN toolResults
  /\ toolResults[i] = ToolMessage(execLog[i].call.id,
                                  ExternalMsg(execLog[i].call.name))
  /\ Len(toolResults) = Len(execLog)
  /\ failedIn \in {"", "followup"}
  /\ pc \in {"awaitFollowUp", "done", "failed"} => Len(backendLog) = 2

\* C6 as stated: every requested tool whose name is absent from both
\* routing tables yields the message "Tool <name> requires external
\* execution", the turn is not failed by it and the follow-up call is made.
C6_AbsentToolIsExternal_Original ==
  \A i \in DOMAIN execLog :
    AbsentFromBoth(execLog[i].call.name) => ExternalOutcome(i)

\* C6 amended: a requested tool whose arguments text decodes and whose name
\* is absent from both routing tables yields exactly one tool-result
\* message "Tool <name> requires external execution"; the turn is not
\* failed by it and the follow-up backend call is still made.
C6_AbsentToolIsExternal ==
  \A i \in DOMAIN execLog :
    (AbsentFromBoth(execLog[i].call.name)
       /\ JSONParses(execLog[i].call.args))
    => ExternalOutcome(i)

C6_Witness ==
  /\ req.stream /\ pc = "done" /\ Len(backendLog) = 2
  /\ \E i \in DOMAIN execLog :
       /\ execLog[i].call.name = "nope"
       /\ JSONParses(execLog[i].call.args)
       /\ toolResults[i].content = "Tool nope requires external execution"

\* C7: a tool call that lacks an id or has an empty function name is never
\* processed by the execution loop and has no entry in the tool results.
C7_IncompleteCallNeverExecuted ==
  \A i \in DOMAIN execLog :
    execLog[i].call.id # "" /\ execLog[i].call.name # ""

\* C8: for every index, whatever fragments the function name and the
\* arguments text arrived in, the buffered (and then finalized) tool call
\* has the function name and the arguments text that are the concatenation
\* of the fragments in arrival order, i.e. what one delta would deliver.
C8_ChunkingInvariant ==
  /\ \A i \in DOMAIN toolCallsBuffer :
       /\ toolCallsBuffer[i].index \in DOMAIN sent
       /\ toolCallsBuffer[i].name = sent[toolCallsBuffer[i].index].name
       /\ toolCallsBuffer[i].args = sent[toolCallsBuffer[i].index].args
  /\ (req.stream /\ pc = "exec") =>
       \A k \in DOMAIN toolCalls :
         \E x \in DOMAIN sent :
           /\ toolCalls[k].name = sent[x].name
           /\ toolCalls[k].args = sent[x].args

C8_Witness ==
  /\ req.stream /\ pc = "exec"
  /\ 0 \in DOMAIN sent /\ sent[0].n = 3
  /\ \E k \in DOMAIN toolCalls :
       toolCalls[k].name = "get_weather" /\ toolCalls[k].args = "{}"

\* The first stream of a streaming turn has ended.
StreamEnded ==
  /\ req.stream
  /\ pc \in {"exec", "execAwait", "awaitFollowUp", "done"}
     \/ (pc = "failed" /\ failedIn = "followup")

\* C9: in a streaming turn, if after stream end no tool-call delta was seen
\* or every buffered tool call lacks an id or a function name, then no tool
\* is executed, no follow-up backend call is made and the stream has ended.
C9_NoValidCallsEndsStream ==
  (StreamEnded
     /\ (~hasToolCalls
           \/ \A i \in DOMAIN toolCallsBuffer :
                toolCallsBuffer[i].id = "" \/ toolCallsBuffer[i].name = ""))
  => /\ pc = "done"
     /\ execLog = <<>> /\ toolResults = <<>>
     /\ Len(backendLog) = 1

C9_Witness ==
  /\ req.stream /\ pc = "done" /\ hasToolCalls
  /\ Len(toolCallsBuffer) = 2
  /\ \A i \in DOMAIN toolCallsBuffer : toolCallsBuffer[i].name = ""
  /\ Len(backendLog) = 1

\* The last call before call j of listLog that ran a batch, 0 if none.
LastBatchBefore(j) ==
  IF \E i \in 1..(j - 1) : listLog[i].batch
  THEN CHOOSE i \in 1..(j - 1) :
         listLog[i].batch /\ \A k \in (i + 1)..(j - 1) : ~listLog[k].batch
  ELSE 0

ConnectedHttp ==
  {n \in DOMAIN mcpServerInstances :
     mcpServerInstances[n].initialized
       /\ mcpServerInstances[n].type # "command"}

-----------------------------------------------------------------------------
(* Properties of the registry: restart, batch initialization, status *)

\* C11: when a restart has returned while no list() call was in progress
\* and a catalog had been captured before, the next list() call runs a
\* fresh batch of per-server queries, even within the TTL of that capture.
C11_RestartInvalidatesCache ==
  \A k \in DOMAIN restartLog :
    LET e == restartLog[k]
        j == e.lists + 1
    IN (e.returned /\ e.lpcAt = "idle" /\ j \in DOMAIN listLog
          /\ \E i \in 1..e.lists : listLog[i].batch)
       => listLog[j].batch

ConfiguredNames == {mcpServersConfig[i].name : i \in DOMAIN mcpServersConfig}

AllStartsSettled ==
  \A n \in DOMAIN startPc : startPc[n] \in {"settled", "rejected"}

\* C12: batch initialization completes only after every configured server
\* was started and its start has ended, whatever happened to the others; a
\* server whose own endpoint answers the handshake, or whose own subprocess
\* reports its launch, is connected once its start has settled, whether the
\* other starts failed (timeout, launch error, handshake error, invalid
\* configuration) or not; and once all starts have settled initialization
\* can complete, without raising.
C12_BatchStartsIndependent ==
  restartLog = <<>> =>
    /\ initDone =>
         \A n \in ConfiguredNames :
           n \in DOMAIN startPc /\ startPc[n] \in {"settled", "rejected"}
    /\ \A n \in DOMAIN mcpServerInstances :
         startPc[n] = "settled" =>
           LET inst == mcpServerInstances[n]
           IN /\ (inst.type # "command" /\ endpoint[inst.config.url] = "ok")
                   => inst.initialized
              /\ (inst.type = "command"
                    /\ procs[inst.process].state = "running")
                   => inst.initialized
    /\ (AllStartsSettled /\ ~initDone) => ENABLED G_Finish

C12_Witness ==
  /\ initDone /\ restartLog = <<>>
  /\ startPc["bad"] = "rejected"
  /\ ~mcpServerInstances["fs"].initialized
  /\ mcpServerInstances["fs"].lastError # ""
  /\ mcpServerInstances["local"].lastError
       = "Command server local failed to start within timeout"
  /\ mcpServerInstances["db"].initialized
  /\ "query" \in DOMAIN toolToServerMap

\* C13: once batch initialization has completed and the (latest) start of a
\* configured server has ended, status(name) finds the server and reports
\* `connected`, or `error` with the failure message; never `disconnected`
\* and never a missing entry.
C13_StartEndsConnectedOrError ==
  \A n \in ConfiguredNames :
    (initDone /\ n \in DOMAIN startPc
       /\ startPc[n] \in {"settled", "rejected"}) =>
      LET st == GetServerStatus(n, mcpServerInstances, now)
      IN /\ st.found
         /\ st.status \in {"connected", "error"}
         /\ st.status = "error" => st.lastError # ""

\* C14: when the endpoint of an HTTP server answers `initialize` with a body
\* without a `data: ` line, the start ends with the instance not connected,
\* status(name) is `error` and lastError carries the framing error message.
C14_FramingErrorRecorded ==
  \A n \in DOMAIN mcpServerInstances :
    LET inst == mcpServerInstances[n]
        st   == GetServerStatus(n, mcpServerInstances, now)
    IN (startPc[n] = "settled" /\ inst.type # "command"
          /\ endpoint[inst.config.url] = "nomarker")
       => /\ ~inst.initialized
          /\ st.status = "error"
          /\ st.lastError
               = WrapInitError(n, "Invalid SSE response format: ")

C14_Witness ==
  /\ initDone
  /\ endpoint["u_fs"] = "nomarker"
  /\ GetServerStatus("fs", mcpServerInstances, now).status = "error"
  /\ GetServerStatus("db", mcpServerInstances, now).status = "connected"

\* An entry that a step adds to reqLog is the `initialize` of a start
\* sequence (it is sent before any session exists).
IsStartInitialize(e) ==
  /\ e.method = "initialize"
  /\ startPc'[e.server] = "awaitInit" /\ startPc[e.server] # "awaitInit"

\* Every request a step sends to a registered server, other than the
\* `initialize` of a start, carries the identifier returned by the latest
\* answered `initialize` of that server.
SessionCarriedStep ==
  \A i \in (Len(reqLog) + 1)..Len(reqLog') :
    LET e == reqLog'[i]
    IN (e.server \in DOMAIN mcpServerInstances /\ ~IsStartInitialize(e))
       => /\ e.server \in DOMAIN initSession'
          /\ e.session = initSession'[e.server]
          /\ e.session # ""

\* A connected HTTP instance stores the identifier its `initialize` returned,
\* and no request sent after a restart of a server carries the identifier
\* the instance held when the restart was called.
SessionStored ==
  /\ \A n \in DOMAIN mcpServerInstances :
       (mcpServerInstances[n].initialized
          /\ mcpServerInstances[n].type # "command")
       => /\ n \in DOMAIN initSession
          /\ mcpServerInstances[n].sessionId = initSession[n]
  /\ \A k \in DOMAIN restartLog :
       \A i \in (restartLog[k].at + 1)..Len(reqLog) :
         (reqLog[i].server = restartLog[k].name
            /\ restartLog[k].oldSession # "")
         => reqLog[i].session # restartLog[k].oldSession

\* C15: the session identifier returned by `initialize` is stored on the
\* instance and carried by every later request to it
\* (notifications/initialized, tools/list, tools/call, capabilities); after
\* a restart no request carries the identifier of the previous session.
C15_SessionCarried == [][SessionCarriedStep /\ SessionStored']_vars

C15_Witness ==
  /\ \E k \in DOMAIN restartLog :
       /\ restartLog[k].name = "fs" /\ restartLog[k].returned
       /\ restartLog[k].oldSession = "sid_u_fs_1"
       /\ \E i \in (restartLog[k].at + 1)..Len(reqLog) :
            /\ reqLog[i].server = "fs"
            /\ reqLog[i].method \in {"tools/call", "tools/list"}
            /\ reqLog[i].session = "sid_u_fs_2"
  /\ \E i \in DOMAIN directLog : directLog[i].ok /\ directLog[i].sent = 1

\* The entry of restartLog is the latest restart of its server.
LatestRestart(k) ==
  \A k2 \in DOMAIN restartLog :
    k2 > k => restartLog[k2].name # restartLog[k].name

\* C16: restart(name) of a registered server has killed the subprocess the
\* instance had, the instance carries the start time of the restart and not
\* the previous session identifier; while the start is re-run the instance
\* has no lastError and no session identifier; when the re-run has ended
\* the instance is connected or its failure is recorded in lastError.
C16_RestartResetsAndReruns ==
  \A k \in DOMAIN restartLog :
    LET e    == restartLog[k]
        inst == mcpServerInstances[e.name]
    IN /\ e.oldProcess # 0 => ~Live(procs[e.oldProcess])
       /\ LatestRestart(k) =>
            /\ inst.startTime = e.t
            /\ e.oldSession # "" => inst.sessionId # e.oldSession
            /\ startPc[e.name] # "settled" =>
                 /\ ~inst.initialized
                 /\ inst.lastError = "" /\ inst.sessionId = ""
            /\ startPc[e.name] = "settled" =>
                 inst.initialized \/ inst.lastError # ""

\* A step of restart(n): the call itself or a step of the start it re-runs.
RestartStepOf(n) ==
  /\ startPc'[n] # startPc[n]
  /\ n \in restarting \/ n \in restarting'

\* A restart step of n leaves the instance and subprocess of every other
\* server, the routing table and the captured catalog as they were.
RestartFrameStep ==
  \A n \in DOMAIN mcpServerInstances :
    RestartStepOf(n) =>
      /\ \A m \in DOMAIN mcpServerInstances \ {n} :
           /\ mcpServerInstances'[m] = mcpServerInstances[m]
           /\ mcpServerInstances[m].process # 0 =>
                procs'[mcpServerInstances[m].process]
                  = procs[mcpServerInstances[m].process]
      /\ toolToServerMap' = toolToServerMap
      /\ mcpToolsCache' = mcpToolsCache

\* A catalog rebuild that ends after a restart was called captures every
\* tool of every connected HTTP server whose endpoint answers, and routes it.
RebuildAfterRestartStep ==
  (lpc = "batch" /\ lpc' = "idle" /\ restartLog # <<>>) =>
    \A m \in ConnectedHttp :
      endpoint[mcpServerInstances[m].config.url] = "ok" =>
        \A tn \in Range(EndpointTools(mcpServerInstances[m].config.url)) :
          /\ \E j \in DOMAIN mcpToolsCache'.tools :
               mcpToolsCache'.tools[j] = FormatTool(tn, m, FALSE)
          /\ tn \in DOMAIN toolToServerMap'
          /\ toolToServerMap'[tn] = m

\* C17: restart(name) leaves every other server's instance (lifecycle
\* state, session, process, lastError) unchanged and removes none of their
\* tools or routes; the catalog rebuilt next still contains every tool of
\* every other connected server.
C17_RestartLeavesOthers ==
  [][RestartFrameStep /\ RebuildAfterRestartStep]_vars

C17_Witness ==
  /\ restartLog # <<>> /\ restartLog[1].name = "fs"
  /\ ~mcpServerInstances["fs"].initialized
  /\ listLog # <<>> /\ listLog[Len(listLog)].batch
  /\ \E j \in DOMAIN mcpToolsCache.tools :
       mcpToolsCache.tools[j] = FormatTool("query", "db", FALSE)
  /\ "query" \in DOMAIN toolToServerMap
  /\ "read_file" \notin DOMAIN toolToServerMap
  /\ mcpServerInstances["local"].initialized
  /\ Live(procs[mcpServerInstances["local"].process])

-----------------------------------------------------------------------------
(* Properties of the turn: tool choice, execution order, tool failures *)

\* C18: no backend request, initial or follow-up, carries a tool choice
\* with an empty or absent tool list; when the assembled tool list is not
\* empty the initial request carries the caller's tool choice if given and
\* "auto" otherwise.
C18_NoChoiceWithoutTools ==
  /\ \A i \in DOMAIN backendLog :
       backendLog[i].tool_choice # "" => Len(backendLog[i].tools) > 0
  /\ Len(backendLog) >= 1 =>
       (Len(backendLog[1].tools) > 0 =>
          backendLog[1].tool_choice
            = IF req.tool_choice # "" THEN req.tool_choice ELSE "auto")

C18_Witness ==
  /\ Len(backendLog) = 2
  /\ req.tool_choice = "required"
  /\ backendLog[1].tool_choice = "required"
  /\ backendLog[2].tool_choice = "" /\ backendLog[2].tools = <<>>

\* C18, the case of an empty assembled list: the caller's tool choice has
\* been removed from the initial request.
C18_WitnessNoTools ==
  /\ Len(backendLog) >= 1
  /\ req.tool_choice = "required"
  /\ backendLog[1].tools = <<>> /\ backendLog[1].tool_choice = ""

\* C19: at most one tool execution of the turn is in flight, it is the
\* execution of the next call in the order of the requested tool calls and
\* all earlier calls have their result; result i carries the id of
\* requested call i; the follow-up request carries, after the assistant
\* message, exactly one result per requested call, in that order.
C19_SequentialOrderedResults ==
  /\ Cardinality(inFlight) <= 1
  /\ inFlight \subseteq {tcIdx}
  /\ Len(toolResults) = Len(execLog)
  /\ Len(toolResults) <= Len(toolCalls)
  /\ pc \in {"exec", "execAwait"} => Len(toolResults) = tcIdx - 1
  /\ \A i \in DOMAIN toolResults :
       /\ toolResults[i].role = "tool"
       /\ toolResults[i].tool_call_id = toolCalls[i].id
       /\ execLog[i].call = toolCalls[i]
  /\ Len(backendLog) = 2 =>
       /\ Len(toolResults) = Len(toolCalls)
       /\ backendLog[2].messages
            = <<UserMessage, AssistantMessage(toolCalls)>> \o toolResults

C19_Witness ==
  /\ Len(backendLog) = 2 /\ Len(toolCalls) = 2
  /\ toolCalls[1].id = "call_2" /\ toolCalls[2].id = "call_1"
  /\ execLog[1].kind = "executed" /\ execLog[2].kind = "executed"
  /\ backendLog[2].messages[3].tool_call_id = "call_2"
  /\ backendLog[2].messages[4].tool_call_id = "call_1"

\* The error descriptions a failed tool execution can leave in its result.
ToolErrorContents ==
  {"Error: Server " \o n \o " is not initialized" : n \in ConfiguredNames}
  \cup {"Error: MCP server not found: " \o n : n \in ConfiguredNames}
  \cup {"Error: HTTP 500: Internal Server Error",
        "Error: MCP Error: refused",
        "Error: Invalid SSE response format: "}

\* C20: a tool execution that fails (server not initialized, transport or
\* protocol error) leaves a tool-result message with the id of the call and
\* the error description; the turn is not failed by it, every remaining
\* tool call is processed and the follow-up backend call is made.
C20_ToolFailureBecomesResult ==
  /\ failedIn \in {"", "backend", "followup"}
  /\ \A i \in DOMAIN execLog :
       execLog[i].kind = "error" =>
         /\ toolResults[i].tool_call_id = execLog[i].call.id
         /\ toolResults[i].content \in ToolErrorContents
         /\ pc \in {"awaitFollowUp", "done", "failed"} =>
              /\ Len(toolResults) = Len(toolCalls)
              /\ Len(backendLog) = 2
              /\ pc = "failed" => failedIn = "followup"

C20_Witness ==
  /\ pc = "done" /\ Len(backendLog) = 2 /\ Len(execLog) = 2
  /\ execLog[1].kind = "error"
  /\ toolResults[1].content \in
       {"Error: Server fs is not initialized",
        "Error: HTTP 500: Internal Server Error"}
  /\ execLog[2].kind = "executed"

\* The turn has returned to its caller or is waiting for the follow-up call.
AfterToolPhase == pc \in {"awaitFollowUp", "done", "failed"}

\* What C21 says of a state.
TwoCallsAtMost ==
  /\ Len(backendLog) <= 2
  /\ Len(backendLog) = 2 =>
       /\ execLog # <<>>
       /\ backendLog[2].tools = <<>>
       /\ backendLog[2].tool_choice = ""
  /\ (AfterToolPhase /\ execLog # <<>>) => Len(backendLog) = 2
  /\ Len(execLog) <= Len(toolCalls)
  /\ \A i \in DOMAIN execLog :
       \A k \in DOMAIN followUp.tool_calls :
         execLog[i].call # followUp.tool_calls[k]

\* What C21 says of a step taken once the follow-up call has been made.
NoThirdRoundStep ==
  AfterToolPhase =>
    /\ pc' \in {"awaitFollowUp", "done", "failed"}
    /\ backendLog' = backendLog
    /\ execLog' = execLog
    /\ toolResults' = toolResults

\* C21: a turn makes at most two backend calls; the second is made exactly
\* when tool calls were processed, and its request has neither tools nor
\* tool_choice; once it has been made nothing more is executed and no
\* further backend call follows, whatever tool calls the follow-up response
\* carries.
C21_AtMostOneFollowUp == [][NoThirdRoundStep /\ TwoCallsAtMost']_vars

C21_Witness ==
  /\ pc = "done" /\ Len(backendLog) = 2
  /\ followUp.hasCalls /\ Len(followUp.tool_calls) = 1
  /\ Len(execLog) = 2 /\ execLog[1].kind = "executed"

ArgErrorContents ==
  {"Error: Invalid tool arguments - Empty arguments",
   "Error: Invalid tool arguments - Unexpected end of JSON input"}

ToolCallRequests == {j \in DOMAIN reqLog : reqLog[j].method = "tools/call"}

\* C22: on both paths a tool call whose arguments text is empty or does not
\* decode leaves a tool-result message with its id and an argument error,
\* and no request is sent to a server for it (the tools/call requests sent
\* are at most as many as the processed calls whose arguments decode); when
\* the loop has ended every tool call of the turn has been processed.
C22_BadArgumentsNotExecuted ==
  /\ \A i \in DOMAIN execLog :
       ~JSONParses(execLog[i].call.args) =>
         /\ execLog[i].kind = "argerror"
         /\ execLog[i].asked = <<>>
         /\ toolResults[i].tool_call_id = execLog[i].call.id
         /\ toolResults[i].content \in ArgErrorContents
  /\ Cardinality(ToolCallRequests)
       <= Cardinality({i \in DOMAIN execLog : JSONParses(execLog[i].call.args)})
  /\ AfterToolPhase =>
       /\ Len(execLog) = Len(toolCalls)
       /\ Len(toolResults) = Len(toolCalls)

\* A call to read_file with undecodable arguments was answered with an
\* error, and the call to query after it was executed on db.
C22_Witness ==
  /\ pc = "done" /\ Len(execLog) = 2
  /\ execLog[1].call.name = "read_file" /\ execLog[1].kind = "argerror"
  /\ execLog[2].call.name = "query" /\ execLog[2].kind = "executed"
  /\ execLog[2].asked = <<"db">>

C22_WitnessStreaming == C22_Witness /\ req.stream

\* The live subprocesses spawned for the global server n.
LiveProcsOf(n) == {p \in DOMAIN procs : procs[p].owner = n /\ Live(procs[p])}

\* C28: after batch initialization and any restarts, overlapping a start in
\* progress or not, the registry holds an instance for every configured
\* name (a Map holds one per key), and at any time at most one live
\* subprocess exists for a name.
C28_OneInstanceOneProcess ==
  /\ initDone =>
       \A n \in ConfiguredNames : n \in DOMAIN mcpServerInstances
  /\ \A n \in ConfiguredNames : Cardinality(LiveProcsOf(n)) <= 1

\* The step belongs to the per-request servers of the turn: one of them is
\* started, their tools are listed, or a tool call is executed on one.
PerRequestStep ==
  \/ pc \in {"prInit", "prAwaitSpawn", "prAwaitInit"}
  \/ /\ Len(execLog') > Len(execLog)
     /\ execLog'[Len(execLog')].server \in PerRequestNames

\* C23: starting the per-request servers of a turn, listing their tools and
\* executing a tool call on one of them leaves the shared tool cache, its
\* capture time, the shared routing table and the global registry unchanged.
C23_PerRequestLeavesShared ==
  [][PerRequestStep =>
       UNCHANGED <<mcpToolsCache, mcpLastCacheTime, toolToServerMap,
                   mcpServerInstances>>]_vars

\* A turn with a per-request subprocess and a per-request HTTP server has
\* executed read_file on the per-request server.
C23_Witness ==
  /\ pc = "done" /\ Len(perRequestServers) = 2
  /\ Len(perRequestTools) > 0
  /\ \E i \in DOMAIN execLog :
       execLog[i].kind = "executed" /\ execLog[i].server \in PerRequestNames

\* The routing table a merged list stands for: each tool name of the list
\* mapped to the server of its last entry in the list.
RoutesOf(tools) ==
  [x \in {tools[i].name : i \in DOMAIN tools} |->
     tools[CHOOSE i \in DOMAIN tools :
             /\ tools[i].name = x
             /\ \A j \in DOMAIN tools : tools[j].name = x => j <= i].server]

\* The last completed getMCPTools call that rebuilt the catalog, 0 if none.
LastRebuild == LastBatchBefore(Len(listLog) + 1)

\* While no rebuild is in progress the routing table is the one of the
\* tools returned in the last rebuild.
RoutesExact ==
  (lpc = "idle" /\ LastRebuild # 0) =>
    toolToServerMap = RoutesOf(listLog[LastRebuild].tools)

\* A call by tool name of a routed tool sends one tools/call request, to the
\* server the routing table maps the name to.
RoutedCallStep ==
  (/\ Len(directLog') > Len(directLog)
   /\ directLog'[Len(directLog')].op = "callByName"
   /\ directLog'[Len(directLog')].tool \in DOMAIN toolToServerMap)
  => /\ Len(reqLog') = Len(reqLog) + 1
     /\ reqLog'[Len(reqLog')].method = "tools/call"
     /\ reqLog'[Len(reqLog')].server =
          toolToServerMap[directLog'[Len(directLog')].tool]

\* C24: after a catalog rebuild the routing table has exactly one entry for
\* each tool name returned in that rebuild, mapped to the server that
\* returned it (to the later-discovered one if two did), and no entry from
\* an earlier merge; a call by tool name then sends tools/call to the mapped
\* server.
C24_RoutesRebuiltExactly == [][RoutedCallStep /\ RoutesExact']_vars

\* A first rebuild found read_file on fs and on a (routed to a); a later
\* one, in which a no longer answered, left the two routes read_file -> fs
\* and query -> db, and read_file called by name went to fs.
C24_Witness ==
  /\ lpc = "idle" /\ Len(listLog) >= 2
  /\ listLog[1].batch /\ Len(listLog[1].tools) = 4
  /\ RoutesOf(listLog[1].tools)["read_file"] = "a"
  /\ LastRebuild > 1 /\ Len(listLog[LastRebuild].tools) = 2
  /\ DOMAIN toolToServerMap = {"read_file", "query"}
  /\ toolToServerMap["read_file"] = "fs"
  /\ Len(directLog) = 1 /\ directLog[1].tool = "read_file"
  /\ directLog[1].ok /\ directLog[1].server = "fs"
  /\ reqLog[Len(reqLog)].method = "tools/call"
  /\ reqLog[Len(reqLog)].server = "fs"

UrlOf(n) == mcpServerInstances[n].config.url

\* n is a connected HTTP server whose endpoint answers tools/list.
Answers(n) == n \in ConnectedHttp /\ endpoint[UrlOf(n)] = "ok"

\* What C25 says of the step that completes a catalog build.
CatalogBuildStep ==
  (lpc = "batch" /\ lpc' = "idle") =>
    /\ Len(listLog') = Len(listLog) + 1
    /\ \A n \in DOMAIN mcpServerInstances :
         Answers(n) =>
           \A t \in Range(EndpointTools(UrlOf(n))) :
             /\ FormatTool(t, n, FALSE) \in Range(mcpToolsCache'.tools)
             /\ t \in DOMAIN toolToServerMap'
             /\ Answers(toolToServerMap'[t])
             /\ t \in Range(EndpointTools(UrlOf(toolToServerMap'[t])))

\* C25: a catalog build in which tools/list fails for a connected server
\* still completes, and the merged catalog and the routing table hold every
\* tool of every other connected server that answered.
C25_ListFailureSkipped == [][CatalogBuildStep]_vars

\* All three connected servers were asked, a failed, and the catalog holds
\* the tools of fs and db.
C25_Witness ==
  /\ lpc = "idle" /\ LastRebuild = Len(listLog) /\ LastRebuild # 0
  /\ endpoint["u_a"] = "http500" /\ endpoint["u_db"] = "ok"
  /\ listLog[LastRebuild].queries = 3
  /\ mcpToolsCache.tools = <<FormatTool("read_file", "fs", FALSE),
                             FormatTool("query", "db", FALSE)>>
  /\ toolToServerMap = RoutesOf(mcpToolsCache.tools)

\* The kept entries of the buffer are in ascending order of their index.
KeptInIndexOrder(buf) ==
  \A i, j \in DOMAIN buf :
    (i < j /\ ValidToolCall(buf[i]) /\ ValidToolCall(buf[j]))
      => buf[i].index < buf[j].index

\* C26: after stream end the finalized tool-call list is in ascending order
\* of the index field of the deltas, whatever the order in which the
\* indices first appeared in the stream.
C26_FinalizedOrderedByIndex ==
  (StreamEnded /\ toolCalls # <<>>) =>
    /\ toolCalls = FinalizeToolCalls(toolCallsBuffer)
    /\ KeptInIndexOrder(toolCallsBuffer)

\* The id is one the client generated for the index.
IsFallbackId(id, index) ==
  \E k \in 0..(MaxTime \div TickStep) : id = FallbackId(k * TickStep, index)

\* C27: a buffered entry has the last non-empty id the stream gave for its
\* index, or an id generated for that index when the stream has given
\* none; so its id is never empty.
C27_BufferedIdNonEmpty ==
  \A i \in DOMAIN toolCallsBuffer :
    LET e == toolCallsBuffer[i]
    IN /\ e.id # ""
       /\ e.index \in DOMAIN sent
       /\ sent[e.index].id # "" => e.id = sent[e.index].id
       /\ sent[e.index].id = "" => IsFallbackId(e.id, e.index)

\* Index 0 received two deltas, one of them with the id call_9; index 1
\* received a delta without id.
C27_Witness ==
  /\ Len(toolCallsBuffer) = 2
  /\ \E i, j \in DOMAIN toolCallsBuffer :
       /\ toolCallsBuffer[i].index = 0 /\ toolCallsBuffer[i].id = "call_9"
       /\ sent[0].n = 2
       /\ toolCallsBuffer[j].index = 1
       /\ toolCallsBuffer[j].id = FallbackId(now, 1)

StartupTimeoutError(n) ==
  "Command server " \o n \o " failed to start within timeout"

\* C29: a subprocess server whose start has ended is connected exactly when
\* the launch signal came before the startup timer and before any launch
\* error: then it has no error and its subprocess runs; when the timer fired
\* first it is not connected and carries the startup-timeout error; when a
\* launch error came first it is not connected and carries that error; and
\* a start that still waits has seen neither signal nor error.
C29_SpawnBeforeTimeout ==
  \A n \in DOMAIN mcpServerInstances :
    LET inst == mcpServerInstances[n]
    IN inst.type = "command" =>
         /\ startPc[n] = "settled" =>
              /\ inst.initialized <=> inst.lastError = ""
              /\ inst.initialized => procs[inst.process].state = "running"
              /\ inst.lastError \in {"", StartupTimeoutError(n), "spawn ENOENT"}
              /\ procs[inst.process].state = "failed"
                   => inst.lastError \in {StartupTimeoutError(n), "spawn ENOENT"}
         /\ startPc[n] = "awaitSpawn" =>
              /\ procs[inst.process].state = "launching"
              /\ ~inst.initialized /\ inst.lastError = ""

Carries(c) == c.content # "" \/ c.hasCalls \/ c.finish # ""

ChunksOf(ys) ==
  LET IsChunk(y) == y.kind = "chunk" IN SelectSeq(ys, IsChunk)

\* C30: after an iteration over the first stream, the chunks handed to the
\* caller for the chunk just read are that chunk, unchanged and exactly
\* once, when it carries content, tool-call deltas or a finish reason, and
\* never more than once otherwise.
C30_FirstStreamPassThrough ==
  (pc = "streaming" /\ chunks > 0) =>
    /\ \A i \in DOMAIN ChunksOf(yielded) :
         ChunksOf(yielded)[i] = Forwarded(lastChunk)
    /\ Len(ChunksOf(yielded)) <= 1
    /\ Carries(lastChunk) => Len(ChunksOf(yielded)) = 1

\* Chunks passing one test only are handed over once and unchanged.
C30_SingleTestOnce ==
  (pc = "streaming" /\ chunks > 0
     /\ Cardinality({t \in {"content", "tool_calls", "finish"} :
          \/ t = "content" /\ lastChunk.content # ""
          \/ t = "tool_calls" /\ lastChunk.hasCalls
          \/ t = "finish" /\ lastChunk.finish # ""}) = 1)
    => ChunksOf(yielded) = <<Forwarded(lastChunk)>>

\* The markers the order of C31 allows at position k of a turn whose tool
\* calls are tcs.
MarkersAllowedAt(k, tcs) ==
  LET n == Len(tcs)
  IN IF k = 1 THEN {Marker("tool_call_detected", "")}
     ELSE IF k = 2 THEN {Marker("tool_execution_start", "")}
     ELSE IF k <= 2 + 2 * n
       THEN LET tc == tcs[(k - 1) \div 2]
            IN IF k % 2 = 1 THEN {Marker("tool_executing", tc.name)}
               ELSE {Marker("tool_completed", tc.name),
                     Marker("tool_error", tc.name)}
     ELSE IF k = 3 + 2 * n THEN {Marker("tools_completed", "")}
     ELSE IF k = 4 + 2 * n THEN {Marker("final_response_start", "")}
     ELSE IF k = 5 + 2 * n THEN {Marker("followup_chunk", "")}
     ELSE {}

\* C31: with execution feedback on, the marker chunks of a streaming turn
\* come in the order tool_call_detected (once), tool_execution_start, per
\* tool call tool_executing and then tool_completed or tool_error, then
\* tools_completed and final_response_start, then the follow-up stream: a
\* tool call is in execution only right after its tool_executing, the loop
\* moves on only after the closing marker, and the follow-up request is
\* awaited only after final_response_start.
C31_MarkerOrder ==
  (req.stream /\ req.toolExecutionFeedback) =>
    /\ \A k \in DOMAIN markers : markers[k] \in MarkersAllowedAt(k, toolCalls)
    /\ pc = "streaming" => Len(markers) <= 1
    /\ pc = "exec" => Len(markers) = 2 + 2 * (tcIdx - 1)
    /\ pc = "execAwait" => Len(markers) = 3 + 2 * (tcIdx - 1)
    /\ pc = "awaitFollowUp" => Len(markers) = 4 + 2 * Len(toolCalls)

\* The order of C31 for turns in which every tool call is routed to a
\* server and every chunk with tool_calls carries a delta.
FeedbackRoutedOnly ==
  (/\ \A i \in DOMAIN execLog : execLog[i].kind \in {"executed", "error", "argerror"}
   /\ \A i \in DOMAIN toolCalls : toolCalls[i].name = "read_file"
   /\ \A i \in DOMAIN markers : i > 1 => markers[i].type # "tool_call_detected")
    => C31_MarkerOrder

\* The stage of the per-request state machine a position of the turn is in.
Stage(p) ==
  IF p = "idle" THEN "IDLE"
  ELSE IF p \in {"prInit", "prAwaitInit", "prAwaitSpawn", "getTools"}
    THEN "ASSEMBLE_TOOLS"
  ELSE IF p \in {"awaitBackend", "genCreated", "awaitStream", "streaming"}
    THEN "BACKEND_CALL"
  ELSE IF p \in {"exec", "execAwait"} THEN "EXECUTE_TOOLS"
  ELSE IF p = "awaitFollowUp" THEN "FOLLOWUP_CALL"
  ELSE IF p = "done" THEN "DONE"
  ELSE IF p = "failed" THEN "FAILED"
  ELSE "UNKNOWN"

\* The stage changes the state machine allows.
StageOrder ==
  {<<"IDLE", "ASSEMBLE_TOOLS">>,
   <<"ASSEMBLE_TOOLS", "BACKEND_CALL">>, <<"ASSEMBLE_TOOLS", "FAILED">>,
   <<"BACKEND_CALL", "EXECUTE_TOOLS">>, <<"BACKEND_CALL", "DONE">>,
   <<"BACKEND_CALL", "FAILED">>,
   <<"EXECUTE_TOOLS", "FOLLOWUP_CALL">>,
   <<"FOLLOWUP_CALL", "DONE">>, <<"FOLLOWUP_CALL", "FAILED">>}

\* A step of the turn keeps its stage or moves along StageOrder; the stage
\* of execution is left for DONE directly only when it had no tool call to
\* process; tools are processed in the stage of execution only.
StageStep ==
  /\ \/ Stage(pc') = Stage(pc)
     \/ <<Stage(pc), Stage(pc')>> \in StageOrder
     \/ /\ Stage(pc) = "EXECUTE_TOOLS" /\ Stage(pc') = "DONE"
        /\ toolCalls = <<>>
  /\ (execLog' # execLog \/ inFlight' # inFlight)
       => Stage(pc) = "EXECUTE_TOOLS" /\ Len(backendLog) = 1

\* Every tool call of the turn has its result message.
AllAnswered ==
  /\ inFlight = {}
  /\ Len(toolResults) = Len(toolCalls)
  /\ \A i \in DOMAIN toolCalls : toolResults[i].tool_call_id = toolCalls[i].id

\* What C32 says of a state.
StageInv ==
  /\ Stage(pc) # "UNKNOWN"
  /\ Stage(pc) \in {"IDLE", "ASSEMBLE_TOOLS"} => backendLog = <<>>
  /\ Stage(pc) \in {"IDLE", "ASSEMBLE_TOOLS", "BACKEND_CALL"}
       => execLog = <<>> /\ inFlight = {} /\ toolResults = <<>>
  /\ Stage(pc) = "BACKEND_CALL" => Len(backendLog) <= 1
  /\ Stage(pc) = "EXECUTE_TOOLS" => Len(backendLog) = 1
  /\ Len(backendLog) = 2 => AllAnswered /\ toolCalls # <<>>
  /\ Stage(pc) = "FOLLOWUP_CALL" => Len(backendLog) = 2

\* C32: a turn moves through ASSEMBLE_TOOLS, BACKEND_CALL, then optionally
\* EXECUTE_TOOLS and FOLLOWUP_CALL, to DONE or FAILED; no tool call is
\* processed before the first backend response or stream has ended, and the
\* follow-up request is issued only when every tool call of the turn has its
\* result message.
C32_TurnStages == [][StageStep /\ StageInv']_vars

C32_Witness ==
  /\ pc = "awaitFollowUp" /\ Len(backendLog) = 2
  /\ Len(toolCalls) = 2 /\ AllAnswered
  /\ \E i \in DOMAIN execLog : execLog[i].kind = "error"
  /\ \E i \in DOMAIN execLog : execLog[i].kind = "external"

\* What the loop of the streaming path (s = TRUE) or of the non-streaming
\* path (s = FALSE) does with tool call tc in the present state.
LoopOn(tc, s) ==
  ExecToolCall(tc, s, perRequestServers, mcpServerInstances, toolToServerMap,
               mcpEnabled, mcpClient, endpoint)

\* Two backend requests agree in everything but the stream flag.
SameRequest(a, b) == [a EXCEPT !.stream = b.stream] = b

\* C33: in every state in which a turn is about to process a tool call, the
\* loops of both paths push the same tool-result message for it and send the
\* same requests to the servers; and when the loop has ended, the follow-up
\* requests both paths build from the tool calls and results agree in
\* messages and request fields.
C33_PathsAgree ==
  /\ (pc = "exec" /\ tcIdx <= Len(toolCalls)) =>
       /\ LoopOn(toolCalls[tcIdx], TRUE).msg = LoopOn(toolCalls[tcIdx], FALSE).msg
       /\ LoopOn(toolCalls[tcIdx], TRUE).log = LoopOn(toolCalls[tcIdx], FALSE).log
  /\ (pc = "exec" /\ tcIdx > Len(toolCalls) /\ Len(toolResults) > 0) =>
       SameRequest(FollowUpStreaming(enhancedOptions, toolCalls, toolResults),
                   FollowUpNonStreaming(req, toolCalls, toolResults))

\* The agreement of C33 for tool calls whose arguments text is not empty.
PathsAgreeNonEmptyArgs ==
  (\A i \in DOMAIN toolCalls : toolCalls[i].args # "") => C33_PathsAgree

\* A step in which a public operation reads or changes the registry: a
\* direct tool call or capabilities call, the start of a restart, or a
\* list() call passing its wait.
PublicOpStep ==
  \/ directLog' # directLog
  \/ Len(restartLog') > Len(restartLog)
  \/ listLog' # listLog
  \/ lpc = "idle" /\ lpc' # "idle"

\* C34: every step in which a public operation reads or changes the
\* registry is taken after batch initialization has completed.
C34_OpsAwaitInit == [][PublicOpStep => initDone]_vars

\* What C34 says of list() alone.
ListAwaitsInit ==
  [][(listLog' # listLog \/ (lpc = "idle" /\ lpc' # "idle")) => initDone]_vars

\* C35: a registered instance that is connected has no lastError, so an
\* instance whose start has failed (and left its error) is not connected,
\* whatever its subprocess reports afterwards.
C35_ConnectedHasNoError ==
  \A n \in DOMAIN mcpServerInstances :
    mcpServerInstances[n].initialized => mcpServerInstances[n].lastError = ""

\* The connected global servers that own the tool in the cached catalog.
CatalogOwners(toolName) ==
  {sv \in DOMAIN mcpServerInstances :
     /\ mcpServerInstances[sv].initialized
     /\ mcpToolsCache.set
     /\ \E i \in DOMAIN mcpToolsCache.tools :
          /\ mcpToolsCache.tools[i].name = toolName
          /\ mcpToolsCache.tools[i].server = sv}

\* The step in which the loop of a turn answers a tool call that the cached
\* catalog gives to a connected global server sends the call to that server.
RoutedToOwnerStep ==
  Len(execLog') = Len(execLog) + 1 =>
    LET e == execLog'[Len(execLog')]
    IN \A sv \in CatalogOwners(e.call.name) :
         /\ e.kind \in {"executed", "error"}
         /\ e.asked # <<>>
         /\ \A k \in DOMAIN e.asked : e.asked[k] = sv

\* C36: whenever a turn processes a call to a tool that is in the cached
\* catalog and owned by a connected global server, the call is sent to that
\* server, whatever a list() call running at the same time is doing to the
\* routing table.
C36_RoutedDuringRebuild == [][RoutedToOwnerStep]_vars

\* The routing of C36 for the steps taken while no list() call is rebuilding
\* the catalog.
RoutedWhenNoRebuild == [][lpc = "idle" => RoutedToOwnerStep]_vars

\* C37: a list() call that begins on an empty or expired cache while another
\* one is in its batch of tools/list queries starts no batch of its own,
\* so that two batches are never in progress at once; and when both calls
\* have returned, the call that began second has sent no request and has
\* returned the catalog the first one returned.
C37_OverlappingListsOneBatch ==
  /\ ~(lpc = "batch" /\ overlapping.pc = "batch")
  /\ (overlapping.done /\ overlapping.during /\ lpc = "idle"
        /\ listLog # <<>>) =>
       /\ ~overlapping.batch /\ overlapping.queries = 0
       /\ overlapping.tools = listLog[Len(listLog)].tools

\* When both overlapping calls have returned they have returned the same
\* catalog.
OverlappingListsSameCatalog ==
  (overlapping.done /\ overlapping.during /\ lpc = "idle" /\ Len(listLog) = 1)
    => overlapping.tools = listLog[1].tools

\* C38: no request handed to the backend, first or follow-up, on either
\* path, has the field mcpServers or the field toolExecutionFeedback.
C38_NoSdkFieldsToBackend ==
  \A i \in DOMAIN backendLog :
    ~backendLog[i].mcpServers /\ ~backendLog[i].toolExecutionFeedback

\* What C38 says of the first request of a turn and of the follow-up
\* request of the streaming path.
SdkFieldsStripped ==
  \A i \in DOMAIN backendLog :
    (i = 1 \/ req.stream) =>
      ~backendLog[i].mcpServers /\ ~backendLog[i].toolExecutionFeedback

\* The bounds of C39 on a turn: at most two backend requests, and at most
\* one processing and one tools/call request per tool call.
TurnBounds ==
  /\ Len(backendLog) <= 2
  /\ Len(execLog) <= Len(toolCalls)
  /\ Cardinality(ToolCallRequests) <= Len(execLog)

C40_ConnectedIsLive ==
  \A n \in DOMAIN mcpServerInstances :
    (mcpServerInstances[n].type = "command"
       /\ GetServerStatus(n, mcpServerInstances, now).status = "connected")
      => /\ mcpServerInstances[n].process # 0
         /\ procs[mcpServerInstances[n].process].state = "running"

====
